---- MODULE Spec2Model ----
(***************************************************************************)
(* State-machine model of the VIB34D unified pulse game's analysis core:   *)
(* the beat and tempo tracker of UnifiedAudioGameDirector, the event queue *)
(* of AudioDrivenLevelGenerator, the VisualTelegraphSystem with the        *)
(* warnings of HapticAudioVisualIntegration, and the                       *)
(* AudioLatencyCompensation calibrator.                                    *)
(*                                                                         *)
(* Numbers: times are integer milliseconds.  Energies are integers in      *)
(* hundredths of the linear magnitude.  BPM values are fixed-point with    *)
(* BpmScale units per beat-per-minute, difficulty multipliers with         *)
(* DiffScale units per 1.0, latency offsets with OffsetScale units per     *)
(* millisecond, each rounded down after every operation (the source        *)
(* computes them in double precision).                                     *)
(***************************************************************************)
EXTENDS Integers, Sequences, FiniteSets, TLC

(***************************************************************************)
(* Bounds of the model                                                     *)
(***************************************************************************)
StartTime == 1000
MaxTicks == 15
MetroFrames == 160
MaxGenFrames == 6
MaxTelegraphs == 2
MaxTelegraphFrames == 4
MaxMeasurements == 11
MaxAdaptTicks == 2
MaxSeededTicks == 22
MaxSetupFrames == 3
MaxReplayFrames == 12

(***************************************************************************)
(* Program constants                                                       *)
(***************************************************************************)
EnergyHistoryCap == 50
BeatHistoryCap == 20
RecentWindow == 10
RefractoryMs == 300
InitialBPM == 120
MinBPM == 60
MaxBPM == 200
MinTempoBeats == 4
BpmScale == 1000

AnalysisHistoryCap == 100
MinTelegraphMs == 3000
DiffScale == 1000
MinDifficulty == 500
MaxDifficulty == 3000
BuildupDelayMs == 1000
SilenceDelayMs == 500
BuildupLevel == 70
SilenceLevel == 10
StrongOnset == 80

WindowSize == 50
MinAdaptMeasurements == 10
DriftThresholdMs == 5
EmergencyOffsetMs == 100
CalibrationConfidence == 80
ProcessingEstimateMs == 20
FallbackInputLatency == 50
OffsetScale == 100

HapticLeadMs == 1000
GuideLeadMs == 500

(***************************************************************************)
(* Input domains                                                           *)
(***************************************************************************)
EnergyLevels == {1, 10}
Quiet == CHOOSE e \in EnergyLevels : \A x \in EnergyLevels : e <= x
Loud == CHOOSE e \in EnergyLevels : \A x \in EnergyLevels : x <= e
FramePeriods == {100, 150, 400}
MetroPeriods == {100, 200}
Intervals == {400, 600, 800, 1000, 2000}
SessionIntervals == {400, 600}
GenPeriods == {250}
TelegraphPeriods == {1500}
TempoSamples == {60, 120}
DifficultySamples == {MinDifficulty, DiffScale, MaxDifficulty}
\* what gameState.getRecentHits(10) may hold: <<successes, total>>
HitSamples == {<<0, 0>>, <<9, 10>>, <<4, 10>>}
Bands == {"bass", "lowMid", "mid", "highMid", "treble"}
Silent ==
    [bands |-> [b \in Bands |-> 0], level |-> 0, onsets |-> <<>>]
BassKick ==
    [bands |-> [b \in Bands |-> IF b = "bass" THEN 50 ELSE 0],
     level |-> 40, onsets |-> <<[offset |-> 10, strength |-> 90]>>]
FullMix ==
    [bands |-> [b \in Bands |-> 100], level |-> 80, onsets |-> <<>>]
Profiles == {Silent, BassKick, FullMix}
\* warning times a caller may pass to the telegraph API, in milliseconds
WarningTimes == {500, 3000, 5000}
WarnedQuadrants == {0, 3}
Platforms == {"iOS", "android", "desktop"}
\* what the loopback test measures: nothing, or an average latency in milliseconds
LoopbackResults == {<<>>, <<30>>, <<350>>}
OutputLatencies == {0, 20}
TimingScripts == {"steady", "late", "jitter"}

VARIABLES
    now,            \* Date.now() as last read by a callback
    framePeriod,    \* milliseconds between two animation frames
    script,         \* "free": any energy per frame; "metronome": a beat train
    beatInterval,   \* period of the metronome's loud frames
    loops,          \* the frame callbacks registered
    pc,             \* the frame callback that runs next
    frames,         \* animation frames processed so far
    frameEnergy,    \* total energy of the frequencyData currently held
    energyHistory,  \* this.energyHistory: sequence of [time, energy]
    beatHistory,    \* this.beatHistory: timestamps of accepted beats
    lastBeatTime,   \* this.lastBeatTime
    currentBPM,     \* this.currentBPM, fixed-point
    tempo,          \* value last returned by calculateTempo, fixed-point
    lastBeat,       \* the beat record last returned by detectBeat
    energyLog,      \* history: every sample ever pushed to energyHistory
    beatLog,        \* history: every beat ever accepted
    segmentQueue,   \* generator: this.segmentQueue, the spawn queue
    analysisHistory,\* generator: this.analysisHistory
    adaptivesDifficulty, \* generator: this.runStats.adaptivesDifficulty, fixed-point
    eventsSpawned,  \* director: this.gameState.eventsSpawned
    recentHits,     \* game state: what getRecentHits(10) holds, <<successes, total>>
    nextId,         \* history: number of events created so far
    spawnedLog,     \* history: every event handed to the game, with the time
    analysisLog,    \* history: every analysis ever pushed to analysisHistory
    activeTelegraphs, \* telegraph system: this.activeTelegraphs
    telegraphCount, \* history: telegraphs registered so far (generateId)
    telegraphState, \* particle system: this.telegraphState, per quadrant
    dangerSpawned,  \* history: quadrants passed to spawnDangerParticles
    syncBuffer,     \* integration: this.syncBuffer, scheduled feedback
    latencyStage,   \* the step of AudioLatencyCompensation.init that runs next
    platformType,   \* this.platform.type
    inputLatency,   \* this.latencyProfile.inputLatency
    outputLatency,  \* this.latencyProfile.outputLatency
    totalLatency,   \* this.latencyProfile.totalLatency
    adaptiveOffset, \* this.latencyProfile.adaptiveOffset, fixed-point
    isCalibrated,   \* this.calibration.isCalibrated
    confidence,     \* this.calibration.confidence, in hundredths
    adaptationEnabled, \* this.adaptation.enabled
    monitorTimer,   \* whether the 1-second setInterval has been registered
    recentMeasurements, \* this.adaptation.recentMeasurements
    slope,          \* this.adaptation.trendAnalysis.slope, fixed-point
    timingScript,   \* the timing errors the player produces
    measurementLog, \* history: every error ever pushed to recentMeasurements
    emergencyCalled,\* history: enableEmergencyMode has been called
    adaptTicks,     \* history: timer ticks fired so far
    tickSnapshot,   \* history: recentMeasurements as the last timer tick saw it
    setupOutcome,   \* history: how setupOptimalAudioContext ended
    directorVariant,\* which UnifiedAudioGameDirector file is loaded
    initStage,      \* the step of UnifiedAudioGameDirector.init that runs next
    inputMode,      \* this.inputMode
    audioContextReady, \* this.audioContext is an AudioContext
    analyserReady,  \* this.analyser is an AnalyserNode
    levelGeneratorReady, \* this.levelGenerator is a level generator
    isActive,       \* this.isActive
    loopScheduled,  \* requestAnimationFrame(processAudio) is pending
    tickFault,      \* the missing object a processAudio tick dereferenced
    processedFrames,\* history: processAudio ticks that ran to their end
    acquisition,    \* history: how audio acquisition ended
    firstRun,       \* history: per loop, the setup stages at its first execution
    beatPhase,      \* integration: this.coherenceState.beatPhase, in milliradians
    beatsAtPhase,   \* history: beats accepted up to the last beatPhase computation
    audioData,      \* the analysis of the current frame, as the consumers read it
    coherenceStage, \* the consumer of the analysis that runs next
    currentParams,  \* integration: this.currentParams and this.currentVisualFeedback
    sinkValue,      \* history: per parameter, the value last passed to window.updateParameter
    prevSink,       \* history: sinkValue before the last updateCycle
    forwardedNow,   \* history: the parameters the last updateCycle passed to the sink
    unifiedRotation,\* coherent visual system: this.unifiedMath.rotation4D
    visualizerRotation, \* director: rotXW, rotYW, rotZW of the last visualParams
    pipelines,      \* replay: two fresh director + integration pairs, by instance
    recorded,       \* replay: frames of the recording played so far
    spectrum,       \* this.frequencyData and the context's sample rate
    analyzerStage,  \* the consumer of the spectrum that runs next
    directorBands,  \* what the director's analyzeFrequencyBands last returned
    generatorBands, \* what the generator's analyzeFrequencyBands last returned
    coherenceState, \* integration: energyLevels and spectralCentroid of this.coherenceState
    unifiedMath,    \* coherent visual system: energy and frequency.spectralCentroid
    generators,     \* two generators reading one analysis, by instance
    paramTimers,    \* integration: the setTimeout callbacks that will write to the sink
    sinkCalls,      \* history: calls of the integration's public methods so far
    lastFrameTime,  \* particle system: this.lastFrameTime
    particleFrames, \* history: render callbacks of the particle system so far
    targetFPS,      \* particle system: this.targetFPS (frameInterval is 1000 / targetFPS)
    particlePools,  \* particle system: maxSize, activeCount and particles, by pool type
    activeParticles, \* particle system: the particles shown, by list key
    executedFeedback, \* history: the syncBuffer entries executed, with the time
    lastHapticTime, \* integration: this.currentState.lastHapticTime
    hapticLog,      \* history: the vibrations asked for, with the time
    gameState,      \* director: this.gameState, the score and the hit counters
    runState,       \* director: this.runState, currentRun and unlockLevel
    hitScript,      \* how the player does: which hitType each updateScore call gets
    scoreCalls      \* history: updateScore calls so far

clockVars == <<now, framePeriod, script, beatInterval, loops, pc, frames>>

trackerVars == <<frameEnergy, energyHistory, beatHistory, lastBeatTime, currentBPM,
                 tempo, lastBeat, energyLog, beatLog>>

directorVars == <<clockVars, trackerVars>>

generatorVars == <<segmentQueue, analysisHistory, adaptivesDifficulty, eventsSpawned,
                   recentHits, nextId, spawnedLog, analysisLog>>

telegraphVars == <<activeTelegraphs, telegraphCount, telegraphState, dangerSpawned,
                   syncBuffer>>

latencyVars == <<latencyStage, platformType, inputLatency, outputLatency, totalLatency,
                 adaptiveOffset, isCalibrated, confidence, adaptationEnabled,
                 monitorTimer, recentMeasurements, slope, timingScript, measurementLog,
                 emergencyCalled, adaptTicks, tickSnapshot, setupOutcome>>

setupVars == <<directorVariant, initStage, inputMode, audioContextReady, analyserReady,
               levelGeneratorReady, isActive, loopScheduled, tickFault,
               processedFrames, acquisition, firstRun>>

paramVars == <<audioData, coherenceStage, currentParams, sinkValue, prevSink,
               forwardedNow, unifiedRotation, visualizerRotation>>

integrationVars == <<beatPhase, beatsAtPhase, paramVars>>

replayVars == <<pipelines, recorded>>

analyzerVars == <<spectrum, analyzerStage, directorBands, generatorBands,
                  coherenceState, unifiedMath>>

sinkVars == <<paramTimers, sinkCalls>>

renderVars == <<lastFrameTime, particleFrames, targetFPS, particlePools, activeParticles>>

feedbackVars == <<executedFeedback, lastHapticTime, hapticLog>>

scoreVars == <<gameState, runState, hitScript, scoreCalls>>

auxVars == <<replayVars, analyzerVars, generators, sinkVars, renderVars, feedbackVars,
             scoreVars>>

vars == <<directorVars, generatorVars, telegraphVars, latencyVars, setupVars,
          integrationVars, auxVars>>

(***************************************************************************)
(* Helpers                                                                 *)
(***************************************************************************)
RECURSIVE SumSeq(_)
SumSeq(s) == IF s = <<>> THEN 0 ELSE Head(s) + SumSeq(Tail(s))

Max(a, b) == IF a > b THEN a ELSE b
Min(a, b) == IF a < b THEN a ELSE b

\* s.slice(-n)
LastN(s, n) == SubSeq(s, Max(1, Len(s) - n + 1), Len(s))

\* A capped push that drops the newest entry instead of the oldest.
PushCappedDropNewest(s, x, cap) ==
    IF Len(s) >= cap THEN s ELSE Append(s, x)

\* s.push(x); if (s.length > cap) s.shift()
PushCapped(s, x, cap) ==
    LET t == Append(s, x) IN IF Len(t) > cap THEN Tail(t) ELSE t

(***************************************************************************)
(* UnifiedAudioGameDirector.detectBeat                                     *)
(***************************************************************************)
\* currentEnergy > recentAvg * 1.5, recentAvg = sum of the last 10 energies / 10
OverThreshold(history, currentEnergy) ==
    LET recent == LastN(history, RecentWindow)
        sum == SumSeq([i \in 1..Len(recent) |-> recent[i].energy])
    IN 2 * RecentWindow * currentEnergy > 3 * sum

\* A refractory test that lets every energy peak through.
RefractoryOverNone(t, last) == TRUE

\* (now - this.lastBeatTime) > 300
RefractoryOver(t, last) == (t - last) > RefractoryMs

DetectBeat(history, beats, last, t, currentEnergy) ==
    LET h == PushCapped(history, [time |-> t, energy |-> currentEnergy], EnergyHistoryCap)
        isBeat == /\ Len(h) > RecentWindow
                  /\ OverThreshold(h, currentEnergy)
                  /\ RefractoryOver(t, last)
        newLast == IF isBeat THEN t ELSE last
    IN [energyHistory |-> h,
        beatHistory |-> IF isBeat THEN PushCapped(beats, t, BeatHistoryCap) ELSE beats,
        lastBeatTime |-> newLast,
        beat |-> [detected |-> isBeat, timeSinceLastBeat |-> t - newLast]]

(***************************************************************************)
(* UnifiedAudioGameDirector.calculateTempo                                 *)
(***************************************************************************)
BeatIntervals(beats) == [i \in 1..(Len(beats) - 1) |-> beats[i + 1] - beats[i]]

\* A tempo estimate that divides by the number of beats, not of intervals.
NewBPMPerBeat(beats) ==
    (60000 * BpmScale * Len(beats)) \div SumSeq(BeatIntervals(beats))

\* 60000 / avgInterval, avgInterval = sum of the intervals / their number
NewBPM(beats) ==
    (60000 * BpmScale * (Len(beats) - 1)) \div SumSeq(BeatIntervals(beats))

\* this.currentBPM * 0.8 + newBPM * 0.2
Blend(old, new) == (8 * old + 2 * new) \div 10

Clamp(lo, x, hi) == Max(lo, Min(hi, x))

CalculateTempo(beats, bpm) ==
    IF Len(beats) < MinTempoBeats
    THEN [currentBPM |-> bpm, result |-> bpm]
    ELSE LET b == Blend(bpm, NewBPM(beats))
         IN [currentBPM |-> b,
             result |-> Clamp(MinBPM * BpmScale, b, MaxBPM * BpmScale)]

(***************************************************************************)
(* AudioDrivenLevelGenerator: events from one analysis                     *)
(***************************************************************************)
BandOrder == <<"bass", "lowMid", "mid", "highMid", "treble">>

\* this.frequencyRanges
FrequencyRanges(band) ==
    CASE band = "bass"    -> [geometry |-> "hypersphere", interaction |-> "pulse"]
      [] band = "lowMid"  -> [geometry |-> "tesseract", interaction |-> "tap"]
      [] band = "mid"     -> [geometry |-> "24cell", interaction |-> "hold"]
      [] band = "highMid" -> [geometry |-> "600cell", interaction |-> "swipe"]
      [] band = "treble"  -> [geometry |-> "120cell", interaction |-> "avoid"]

\* this.quadrantMapping; a quadrant is an object key
QuadrantMapping(band) ==
    CASE band = "bass"    -> "3"
      [] band = "lowMid"  -> "1"
      [] band = "mid"     -> "2"
      [] band = "highMid" -> "4"
      [] band = "treble"  -> "0"

\* baseThresholds of getThresholdForBand, in hundredths
BaseThreshold(band) ==
    CASE band = "bass"    -> 10
      [] band = "lowMid"  -> 15
      [] band = "mid"     -> 20
      [] band = "highMid" -> 25
      [] band = "treble"  -> 30

\* getThresholdForBand: baseThresholds[bandName] * this.runStats.adaptivesDifficulty,
\* in hundredths times DiffScale
GetThresholdForBand(band, difficulty) == BaseThreshold(band) * difficulty

\* bandData.energy > this.getThresholdForBand(bandName)
OverBandThreshold(band, energy, difficulty) ==
    energy * DiffScale > GetThresholdForBand(band, difficulty)

\* subdivisions of calculateSpawnDelay, in quarters of a beat
SubdivisionQuarters(band) ==
    CASE band = "bass"    -> 4
      [] band = "lowMid"  -> 2
      [] band = "mid"     -> 1
      [] band = "highMid" -> 3
      [] band = "treble"  -> 8

\* calculateSpawnDelay: (60000 / tempo) * subdivision, tempo = getCurrentBPM()
CalculateSpawnDelay(band, bpm) ==
    (((60000 * BpmScale) \div bpm) * SubdivisionQuarters(band)) \div 4

\* calculateEventDifficulty: the band energy scaled by the multiplier
CalculateEventDifficulty(energy, difficulty) ==
    (energy * difficulty) \div DiffScale

\* calculateTelegraphDuration: shorter for harder events, never under the minimum
CalculateTelegraphDuration(difficulty) ==
    Max(MinTelegraphMs, 2 * MinTelegraphMs - 10 * difficulty)

\* selectQuadrantForBeat
SelectQuadrantForBeat == "0"

CreateEventFromBand(band, energy, bpm, difficulty, t) ==
    LET diff == CalculateEventDifficulty(energy, difficulty)
    IN [id |-> 0,
        type |-> "geometry_spawn",
        geometry |-> FrequencyRanges(band).geometry,
        interaction |-> FrequencyRanges(band).interaction,
        quadrant |-> QuadrantMapping(band),
        energy |-> energy,
        spawnTime |-> t + CalculateSpawnDelay(band, bpm),
        createdAt |-> t,
        difficulty |-> diff,
        telegraphDuration |-> CalculateTelegraphDuration(diff)]

SpecialEvent(kind, quadrant, spawnAt, t) ==
    [id |-> 0, type |-> kind, geometry |-> "none", interaction |-> "none",
     quadrant |-> quadrant, energy |-> 0, spawnTime |-> spawnAt, createdAt |-> t,
     difficulty |-> 0, telegraphDuration |-> 0]

\* generateSpecialEvents
GenerateSpecialEvents(a, t) ==
    LET strong == SelectSeq(a.onsets, LAMBDA o : o.strength > StrongOnset)
        beats == [i \in 1..Len(strong) |->
                    SpecialEvent("beat_event", SelectQuadrantForBeat,
                                 t + strong[i].offset, t)]
        buildup == IF a.trend = "building" /\ a.level > BuildupLevel
                   THEN <<SpecialEvent("intensity_buildup", "all", t + BuildupDelayMs, t)>>
                   ELSE <<>>
        silence == IF a.level < SilenceLevel
                   THEN <<SpecialEvent("silence_event", "all", t + SilenceDelayMs, t)>>
                   ELSE <<>>
    IN beats \o buildup \o silence

\* calculateRecentPerformance over hits = <<successes, total>>, in hundredths
CalculateRecentPerformance(hits) ==
    IF hits[2] = 0 THEN 50 ELSE (100 * hits[1]) \div hits[2]

\* The multiplier after the adaptation step of scaleDifficultyBasedOnPerformance.
AdaptDifficulty(difficulty, hits) ==
    LET perf == CalculateRecentPerformance(hits)
    IN IF perf > 80 THEN Min(MaxDifficulty, (difficulty * 105) \div 100)
       ELSE IF perf < 50 THEN Max(MinDifficulty, (difficulty * 95) \div 100)
       ELSE difficulty

\* A scaling that also shortens the telegraph of harder events.
ScaleEventAndTelegraph(ev, difficulty) ==
    IF ev.difficulty # 0
    THEN [ev EXCEPT !.difficulty = (ev.difficulty * difficulty) \div DiffScale,
                    !.telegraphDuration = (ev.telegraphDuration * DiffScale) \div difficulty]
    ELSE ev

\* if (event.difficulty) event.difficulty *= this.runStats.adaptivesDifficulty
ScaleEvent(ev, difficulty) ==
    IF ev.difficulty # 0
    THEN [ev EXCEPT !.difficulty = (ev.difficulty * difficulty) \div DiffScale]
    ELSE ev

RECURSIVE InsertBySpawnTime(_, _)
InsertBySpawnTime(ev, queue) ==
    IF queue = <<>> THEN <<ev>>
    ELSE IF ev.spawnTime < Head(queue).spawnTime THEN <<ev>> \o queue
    ELSE <<Head(queue)>> \o InsertBySpawnTime(ev, Tail(queue))

RECURSIVE SortBySpawnTime(_)
SortBySpawnTime(queue) ==
    IF queue = <<>> THEN <<>>
    ELSE InsertBySpawnTime(queue[Len(queue)], SortBySpawnTime(SubSeq(queue, 1, Len(queue) - 1)))

\* A queueEvents that pushes and does not sort.
QueueEventsUnsorted(queue, events) == queue \o events

\* queueEvents: push every event, then sort the queue by spawnTime
QueueEvents(queue, events) == SortBySpawnTime(queue \o events)

\* generateEventsFromAudio on analysis a: the new queue, multiplier and id counter
GenerateEventsFromAudio(a, hits, queue, difficulty, bpm, t, id0) ==
    LET over == SelectSeq(BandOrder,
                          LAMBDA b : OverBandThreshold(b, a.bands[b], difficulty))
        bandEvents == [i \in 1..Len(over) |->
                         CreateEventFromBand(over[i], a.bands[over[i]], bpm, difficulty, t)]
        events == bandEvents \o GenerateSpecialEvents(a, t)
        d == AdaptDifficulty(difficulty, hits)
        scaled == [i \in 1..Len(events) |->
                     [ScaleEvent(events[i], d) EXCEPT !.id = id0 + i]]
    IN [queue |-> QueueEvents(queue, scaled),
        difficulty |-> d,
        nextId |-> id0 + Len(events),
        events |-> scaled]

\* A getNextEvent that returns the head and leaves it in the queue.
GetNextEventPeek(queue, t) ==
    IF queue # <<>> /\ Head(queue).spawnTime <= t
    THEN [event |-> <<Head(queue)>>, queue |-> queue]
    ELSE [event |-> <<>>, queue |-> queue]

\* getNextEvent: the due head of the queue, shifted out, or null
GetNextEvent(queue, t) ==
    IF queue # <<>> /\ Head(queue).spawnTime <= t
    THEN [event |-> <<Head(queue)>>, queue |-> Tail(queue)]
    ELSE [event |-> <<>>, queue |-> queue]

(***************************************************************************)
(* AudioLatencyCompensation: the adaptation arithmetic                     *)
(***************************************************************************)
Abs(x) == IF x < 0 THEN -x ELSE x

\* inputLatency set by setupIOSOptimizations / Android / Desktop
PlatformInputLatency(platform) ==
    CASE platform = "iOS"     -> 20
      [] platform = "android" -> 40
      [] platform = "desktop" -> 10

\* recentMeasurements.slice(-windowSize) summed, over min(windowSize, length)
RecentAvg(m) ==
    (SumSeq(LastN(m, WindowSize)) * OffsetScale) \div Min(WindowSize, Len(m))

\* recentMeasurements.slice(-windowSize * 2, -windowSize) summed, over the same divisor
OldAvg(m) ==
    LET start == Max(0, Len(m) - 2 * WindowSize)
        end == Max(0, Len(m) - WindowSize)
    IN (SumSeq(SubSeq(m, start + 1, end)) * OffsetScale) \div Min(WindowSize, Len(m))

Trend(m) == RecentAvg(m) - OldAvg(m)

\* -trend * this.adaptation.learningRate, learningRate = 0.1
Adjustment(trend) == IF trend >= 0 THEN -(trend \div 10) ELSE (-trend) \div 10

\* The offset after one updateAdaptiveCompensation on measurements m.
AdaptedOffset(m, offset) ==
    IF Len(m) < MinAdaptMeasurements THEN offset
    ELSE IF Abs(Trend(m)) > DriftThresholdMs * OffsetScale
         THEN offset + Adjustment(Trend(m))
         ELSE offset

\* The error of the player's n-th timing measurement, actualTime - expectedTime.
TimingError(n) ==
    CASE timingScript = "steady" -> 0
      [] timingScript = "late"   -> 40
      [] timingScript = "seeded" -> 40
      [] timingScript = "jitter" -> (n % 7) * 10

\* How many measurements the script records: the seeded script records exactly 20.
MeasurementLimit == IF timingScript = "seeded" THEN 20 ELSE MaxMeasurements

\* How many timer ticks are followed.
TickLimit == IF timingScript = "seeded" THEN MaxSeededTicks ELSE MaxAdaptTicks

(***************************************************************************)
(* The master beat phase of the coherence loops                            *)
(***************************************************************************)
\* Math.PI * 2 in milliradians
TwoPiMilli == 6283

\* timeSinceLastBeat / (60000 / bpm) in thousandths of a beat; the product
\* timeSince * bpm is formed in two parts to stay within 32 bits.
MilliBeats(timeSince, bpm) ==
    LET q == timeSince \div 60
        r == timeSince % 60
        a == q * bpm
    IN (a \div 1000) + (((a % 1000) * 60 + r * bpm) \div 60000)

\* A phase that runs backwards as the time since the beat grows.
BeatPhaseReversed(timeSince, bpm) ==
    -((MilliBeats(timeSince, bpm) * TwoPiMilli) \div 1000)

\* (beatInfo.timeSinceLastBeat / (60000 / beatInfo.bpm)) * Math.PI * 2
BeatPhase(timeSince, bpm) ==
    (MilliBeats(timeSince, bpm) * TwoPiMilli) \div 1000

(***************************************************************************)
(* The visual parameters derived from one analysis                         *)
(***************************************************************************)
\* Parameter values, band energies and complexity are in ten-thousandths.
ParamScale == 10000

\* this.cacheThreshold = 0.001 of the parameter caching note
CacheThreshold == 10

\* Math.sin at the angles (milliradians) the sampled phases produce
Sin(a) ==
    CASE a = 0    -> 0
      [] a = 1099 -> 8908
      [] a = 1570 -> 10000
      [] a = 1759 -> 9823
      [] a = 2513 -> 5880
      [] a = 3140 -> 16
      [] a = 5026 -> -9512

\* Math.cos at the angles (milliradians) the sampled phases produce
Cos(a) ==
    CASE a = 0    -> 10000
      [] a = 2355 -> -7063
      [] a = 3769 -> -8096

\* Math.log2(centroid / 440) at the sampled centroids
Log2Ratio(centroid) ==
    CASE centroid = 10   -> -54594
      [] centroid = 440  -> 0
      [] centroid = 3520 -> 30000

\* The % of JavaScript: the result has the sign of the dividend.
JsRem(x, m) == IF x >= 0 THEN x % m ELSE -((-x) % m)

VisualizerParams == {"rot4dXW", "rot4dYW", "rot4dZW", "gridDensity", "morphFactor",
                     "chaos", "speed", "hue", "intensity", "saturation", "geometry"}

\* The entries of calculateVisualFeedbackEffects that depend on the energies only.
FeedbackParams == {"lineThickness", "strokeIntensity"}

\* this.coherenceState.energyLevels as updateCoherenceState fills it from
\* getCurrentAnalysis, whose treble is presence + brilliance
EnergyLevels4(a) ==
    [bass |-> a.bass, mid |-> a.mid, treble |-> a.presence + a.brilliance,
     total |-> a.total]

\* calculateCoherentParameters(audioData) with coherenceState.beatPhase = phase
CalculateCoherentParameters(a, phase) ==
    LET e == EnergyLevels4(a)
        complexity == IF a.complexity = 0 THEN ParamScale \div 2 ELSE a.complexity
        centroid == IF a.centroid = 0 THEN 440 ELSE a.centroid
        bpm == IF a.bpm = 0 THEN InitialBPM * BpmScale ELSE a.bpm
    IN [p \in VisualizerParams |->
          CASE p = "rot4dXW" -> (Sin(phase) * e.bass * 2) \div ParamScale
            [] p = "rot4dYW" -> (Cos((3 * phase) \div 2) * e.mid * 2) \div ParamScale
            [] p = "rot4dZW" -> (Sin((7 * phase) \div 10) * e.treble * 2) \div ParamScale
            [] p = "gridDensity" ->
                 Max(5 * ParamScale, Min(100 * ParamScale, 30 * ParamScale + e.total * 50))
            [] p = "morphFactor" ->
                 (3 * ParamScale) \div 10 + (Sin(2 * phase) * 4) \div 10
            [] p = "chaos" -> Min(ParamScale, complexity)
            [] p = "speed" ->
                 Max(ParamScale \div 10,
                     Min(3 * ParamScale, (bpm * 10) \div InitialBPM))
            [] p = "hue" ->
                 JsRem(Log2Ratio(centroid) \div 10 + ParamScale \div 2, ParamScale)
            [] p = "intensity" -> (4 * ParamScale) \div 10 + (e.total * 6) \div 10
            [] p = "saturation" -> (6 * ParamScale) \div 10 + (e.total * 4) \div 10
            [] p = "geometry" ->
                 Min(8, (complexity * 8) \div ParamScale) * ParamScale]

\* calculateVisualFeedbackEffects: lineThickness and strokeIntensity
CalculateVisualFeedbackEffects(a) ==
    LET e == EnergyLevels4(a)
    IN [p \in FeedbackParams |->
          CASE p = "lineThickness" ->
                 ParamScale \div 2 + (e.bass * 25) \div 10 + e.total * 2
            [] p = "strokeIntensity" -> (3 * ParamScale) \div 10 + (e.mid * 7) \div 10]

\* The parameters updateVIB34DParameters / updateVisualFeedbackParameters pass to
\* window.updateParameter: those with this.currentParams[param] !== value
ChangedParams(current, new) == {p \in DOMAIN new : current[p] # new[p]}

\* rotation4D of updateUnifiedMathFromAudio
UnifiedMathRotation(a) ==
    [XW |-> a.bass * 2, YW |-> a.mid * 2, ZW |-> (a.presence + a.brilliance) * 2]

\* rotXW, rotYW, rotZW of the director's updateVisualizerFromAudio
VisualizerRotation(a) ==
    [XW |-> a.bass, YW |-> a.mid, ZW |-> a.brilliance]

\* ACTUAL_VIB34D_PARAMETERS: the documented range of each visualizer parameter
DocumentedRange(p) ==
    CASE p \in {"rot4dXW", "rot4dYW", "rot4dZW"} ->
           [lo |-> -(628 * ParamScale) \div 100, hi |-> (628 * ParamScale) \div 100]
      [] p = "gridDensity" -> [lo |-> 5 * ParamScale, hi |-> 100 * ParamScale]
      [] p = "speed" -> [lo |-> 0, hi |-> 3 * ParamScale]
      [] p = "geometry" -> [lo |-> 0, hi |-> 8 * ParamScale]
      [] OTHER -> [lo |-> 0, hi |-> ParamScale]

\* The constructor's currentParams and currentVisualFeedback
DefaultParams ==
    [p \in VisualizerParams \cup FeedbackParams |->
       CASE p \in {"rot4dXW", "rot4dYW", "rot4dZW", "geometry"} -> 0
         [] p = "gridDensity" -> 50 * ParamScale
         [] p \in {"speed", "lineThickness"} -> ParamScale
         [] OTHER -> ParamScale \div 2]

\* The sampled spectra: band energies, total energy, complexityScore (which
\* calculateAudioComplexity keeps between 0.1 and 2.0) and spectralCentroid in
\* Hz (0 stands for a missing value): silence, a bass note, the same note a
\* little louder, a full mix.
SpectrumSamples ==
    {[bass |-> 0, mid |-> 0, presence |-> 0, brilliance |-> 0, total |-> 0,
      complexity |-> 1000, centroid |-> 0],
     [bass |-> 5000, mid |-> 0, presence |-> 0, brilliance |-> 0, total |-> 1000,
      complexity |-> 1000, centroid |-> 10],
     [bass |-> 5001, mid |-> 0, presence |-> 0, brilliance |-> 0, total |-> 1000,
      complexity |-> 1000, centroid |-> 10],
     [bass |-> 10000, mid |-> 10000, presence |-> 5000, brilliance |-> 5000,
      total |-> 10000, complexity |-> 20000, centroid |-> 3520]}

\* timeSinceLastBeat in milliseconds
TimeSinceSamples == {0, 125, 200}

\* What getCurrentAnalysis and getBeatInfo may return in one frame.
AudioFrames ==
    {[bass |-> b.bass, mid |-> b.mid, presence |-> b.presence,
      brilliance |-> b.brilliance, total |-> b.total, complexity |-> b.complexity,
      centroid |-> b.centroid, timeSince |-> t, bpm |-> InitialBPM * BpmScale] :
        b \in SpectrumSamples, t \in TimeSinceSamples}

(***************************************************************************)
(* The audio source                                                        *)
(***************************************************************************)
\* The energies the next frame, read at time t, may carry.
FrameEnergies(t) ==
    IF script = "free" THEN EnergyLevels
    ELSE IF (t - StartTime) % beatInterval = 0 THEN {Loud} ELSE {Quiet}

\* The spectra the generator may read in the current frame.
FrameProfiles ==
    IF script = "free" THEN Profiles
    ELSE IF frameEnergy = Loud THEN {BassKick} ELSE {Silent}

FrameLimit == IF script = "free" THEN MaxTicks ELSE MetroFrames

(***************************************************************************)
(* The animation frame: requestAnimationFrame runs the registered          *)
(* callbacks one after the other, once per frame.  "director" is the       *)
(* analysis part of the director's processAudio and "events" the           *)
(* processAudioEvents call that ends it, "reader" a coherence loop calling *)
(* getCurrentAnalysis, "generator" the level generator's analyzeAudio,     *)
(* "input" a consumer recording a timing measurement, "timer" the          *)
(* compensator's 1-second interval.  pc = "director" is also the frame     *)
(* boundary.                                                               *)
(***************************************************************************)
FrameOrder == <<"director", "events", "reader", "generator", "input", "timer">>

RECURSIVE NextFrom(_)
NextFrom(i) ==
    IF i > Len(FrameOrder) THEN "director"
    ELSE IF FrameOrder[i] \in loops THEN FrameOrder[i]
    ELSE NextFrom(i + 1)

PositionOf(p) == CHOOSE i \in 1..Len(FrameOrder) : FrameOrder[i] = p

NextPc(p) == NextFrom(PositionOf(p) + 1)

(***************************************************************************)
(* Initial states of the components                                        *)
(***************************************************************************)
InitClock ==
    /\ now = StartTime
    /\ pc = "director"
    /\ frames = 0

InitTracker ==
    /\ frameEnergy = Quiet
    /\ energyHistory = <<>>
    /\ beatHistory = <<>>
    /\ lastBeatTime = 0
    /\ currentBPM = InitialBPM * BpmScale
    /\ tempo = InitialBPM * BpmScale
    /\ lastBeat = [detected |-> FALSE, timeSinceLastBeat |-> 0]
    /\ energyLog = <<>>
    /\ beatLog = <<>>

InitGeneratorState ==
    /\ segmentQueue = <<>>
    /\ analysisHistory = <<>>
    /\ adaptivesDifficulty = DiffScale
    /\ eventsSpawned = 0
    /\ recentHits = <<0, 0>>
    /\ nextId = 0
    /\ spawnedLog = <<>>
    /\ analysisLog = <<>>

InitTelegraphState ==
    /\ activeTelegraphs = <<>>
    /\ telegraphCount = 0
    /\ telegraphState = [q \in 0..3 |-> [active |-> FALSE, timeRemaining |-> 0]]
    /\ dangerSpawned = <<>>
    /\ syncBuffer = <<>>

\* The two files that define UnifiedAudioGameDirector: "unified" takes an
\* audioContext and leaves the level generator for later, "core" takes the game
\* engine and constructs the level generator itself.
DirectorVariants == {"unified", "core"}

\* How initializeAudioContext can end.
ContextOutcomes == {"created", "constructorThrows", "createAnalyserThrows"}

\* The loops that read audio analysis every frame.
AnalysisLoops == {"processAudio", "analyzeAudio", "updateCycle"}

\* A director whose init has finished with the microphone connected and whose
\* frame loop runs; no integration loop has been started.
InitSetupState ==
    /\ directorVariant = "core"
    /\ initStage = "done"
    /\ inputMode = "microphone"
    /\ audioContextReady = TRUE
    /\ analyserReady = TRUE
    /\ levelGeneratorReady = TRUE
    /\ isActive = TRUE
    /\ loopScheduled = TRUE
    /\ tickFault = "none"
    /\ processedFrames = 0
    /\ acquisition = "microphone"
    /\ firstRun = [l \in AnalysisLoops |-> [ran |-> FALSE, director |-> "none",
                                            latency |-> "none"]]

\* The integration's coherence state as its constructor sets it.
InitIntegrationState ==
    /\ beatPhase = 0
    /\ beatsAtPhase = 0
    /\ audioData = [bass |-> 0, mid |-> 0, presence |-> 0, brilliance |-> 0,
                    total |-> 0, complexity |-> 1000, centroid |-> 0, timeSince |-> 0,
                    bpm |-> InitialBPM * BpmScale]
    /\ coherenceStage = "analysis"
    /\ currentParams = DefaultParams
    /\ sinkValue = [p \in VisualizerParams \cup FeedbackParams |->
                      [sent |-> FALSE, value |-> 0]]
    /\ prevSink = [p \in VisualizerParams \cup FeedbackParams |->
                     [sent |-> FALSE, value |-> 0]]
    /\ forwardedNow = {}
    /\ unifiedRotation = [XW |-> 0, YW |-> 0, ZW |-> 0]
    /\ visualizerRotation = [XW |-> 0, YW |-> 0, ZW |-> 0]

(***************************************************************************)
(* JavaScript numbers that need not be finite, and the frequency buffer    *)
(***************************************************************************)
Num(v) == [k |-> "num", v |-> v]
NaN == [k |-> "nan", v |-> 0]
NegInfinity == [k |-> "neginf", v |-> 0]

IsFinite(x) == x.k = "num"

\* new Float32Array(2048)
FrequencyBins == 2048

\* Magnitudes are kept in hundredths.
MagScale == 100

\* Math.pow(10, dB / 20) for the decibel values of DecibelLevels
Magnitude(dB) ==
    IF dB.k = "neginf" THEN 0
    ELSE CASE dB.v = -40 -> 1
           [] dB.v = -20 -> 10
           [] dB.v = 0   -> 100

\* Math.max(a, b), neither of them NaN
JsMax(a, b) ==
    IF a.k = "neginf" THEN b
    ELSE IF b.k = "neginf" THEN a
    ELSE Num(Max(a.v, b.v))

\* a / b, a and b whole numbers
JsDivide(a, b) ==
    IF b = 0 THEN (IF a = 0 THEN NaN ELSE IF a > 0 THEN [k |-> "posinf", v |-> 0]
                                        ELSE NegInfinity)
    ELSE Num(a \div b)

\* The decibel values getFloatFrequencyData writes to the bins of a sounding
\* frame.  A new Float32Array holds 0.
DecibelLevels == {Num(-40), Num(-20)}

\* The sample rates of the audio context.
SampleRates == {8000, 44100, 48000, 384000}

\* The bin at which a spectrum steps from its low level to its high level.
SplitBins == {24, 512}

\* Digital silence: every bin is -Infinity dB.
SilentSpectrum(rate) ==
    [sampleRate |-> rate, split |-> 0, low |-> NegInfinity, high |-> NegInfinity]

\* The spectra: silence, or bins below split at the level low and the others at
\* the level high.
Spectra(rate) ==
    {SilentSpectrum(rate)} \cup
    {[sampleRate |-> rate, split |-> sp, low |-> lo, high |-> hi] :
        sp \in SplitBins, lo \in DecibelLevels, hi \in DecibelLevels}

\* Math.floor(hz / binSize), binSize = (sampleRate / 2) / frequencyData.length
BinOf(hz, rate) == (hz * 2 * FrequencyBins) \div rate

\* The bins one band's loop visits: for (i = startBin; i < endBin && i < length; i++)
VisitedBins(range, f) ==
    LET startBin == BinOf(range.min, f.sampleRate)
        endBin == BinOf(range.max, f.sampleRate)
        stop == Min(endBin, FrequencyBins)
    IN [width |-> endBin - startBin,
        low |-> Max(0, Min(stop, f.split) - startBin),
        high |-> Max(0, stop - Max(startBin, f.split))]

\* The largest of the values visited, starting from the given value
PeakFrom(first, bins, f) ==
    LET a == IF bins.low > 0 THEN JsMax(first, f.low) ELSE first
    IN IF bins.high > 0 THEN JsMax(a, f.high) ELSE a

\* bands of UnifiedAudioGameDirector.analyzeFrequencyBands
DirectorBandNames ==
    {"subBass", "bass", "lowMid", "mid", "highMid", "presence", "brilliance"}

DirectorBandRange(band) ==
    CASE band = "subBass"    -> [min |-> 0, max |-> 60]
      [] band = "bass"       -> [min |-> 60, max |-> 250]
      [] band = "lowMid"     -> [min |-> 250, max |-> 500]
      [] band = "mid"        -> [min |-> 500, max |-> 2000]
      [] band = "highMid"    -> [min |-> 2000, max |-> 4000]
      [] band = "presence"   -> [min |-> 4000, max |-> 6000]
      [] band = "brilliance" -> [min |-> 6000, max |-> 20000]

\* UnifiedAudioGameDirector.analyzeFrequencyBands: energy is the sum of the
\* magnitudes visited divided by endBin - startBin, peak starts at -Infinity
AnalyzeFrequencyBands(f) ==
    [band \in DirectorBandNames |->
        LET bins == VisitedBins(DirectorBandRange(band), f)
            energy == bins.low * Magnitude(f.low) + bins.high * Magnitude(f.high)
        IN [energy |-> JsDivide(energy, bins.width),
            peak |-> PeakFrom(NegInfinity, bins, f)]]

\* min and max of this.frequencyRanges of the generator
GeneratorBandRange(band) ==
    CASE band = "bass"    -> [min |-> 0, max |-> 250]
      [] band = "lowMid"  -> [min |-> 250, max |-> 500]
      [] band = "mid"     -> [min |-> 500, max |-> 2000]
      [] band = "highMid" -> [min |-> 2000, max |-> 4000]
      [] band = "treble"  -> [min |-> 4000, max |-> 8000]

\* energy += this.frequencyData[i] over the bins visited: a sum of decibel values
DecibelSum(bins, f) ==
    IF (bins.low > 0 /\ f.low.k = "neginf") \/ (bins.high > 0 /\ f.high.k = "neginf")
    THEN NegInfinity
    ELSE Num(bins.low * f.low.v + bins.high * f.high.v)

\* AudioDrivenLevelGenerator.calculateBandDominance, in thousandths: the total is
\* the band's own energy once per frequency range
CalculateBandDominance(energy) ==
    IF energy.k = "neginf" THEN NaN
    ELSE LET totalEnergy == Len(BandOrder) * energy.v
         IN IF totalEnergy = 0 THEN Num(0)
            ELSE Num((energy.v * MagScale) \div totalEnergy)

\* AudioDrivenLevelGenerator.analyzeFrequencyBands: peak starts at 0
AnalyzeFrequencyBandsGenerator(f) ==
    [band \in Bands |->
        LET bins == VisitedBins(GeneratorBandRange(band), f)
            energy == DecibelSum(bins, f)
        IN [energy |-> IF energy.k = "neginf"
                       THEN (IF bins.width = 0 THEN NaN ELSE NegInfinity)
                       ELSE JsDivide(energy.v, bins.width),
            peak |-> PeakFrom(Num(0), bins, f),
            dominance |-> CalculateBandDominance(energy)]]

\* UnifiedAudioGameDirector.calculateTotalEnergy, in hundredths
CalculateTotalEnergy(f) ==
    (f.split * Magnitude(f.low) + (FrequencyBins - f.split) * Magnitude(f.high))
        \div FrequencyBins

DefaultCentroid == 440

\* A centroid without the test of the denominator.
CalculateSpectralCentroidUnguarded(f) ==
    LET lo == Magnitude(f.low)
        hi == Magnitude(f.high)
        denominator == f.split * lo + (FrequencyBins - f.split) * hi
        twiceBins == f.split * (f.split - 1) * lo
                       + (FrequencyBins - f.split) * (FrequencyBins - 1 + f.split) * hi
    IN IF denominator > 0
       THEN Num(((twiceBins \div denominator) * f.sampleRate) \div (4 * FrequencyBins))
       ELSE NaN

\* UnifiedAudioGameDirector.calculateSpectralCentroid, in Hz.  The frequency of
\* bin i is i * (sampleRate / 2) / length; twiceBins / denominator is twice the
\* magnitude-weighted mean bin.
CalculateSpectralCentroid(f) ==
    LET lo == Magnitude(f.low)
        hi == Magnitude(f.high)
        denominator == f.split * lo + (FrequencyBins - f.split) * hi
        twiceBins == f.split * (f.split - 1) * lo
                       + (FrequencyBins - f.split) * (FrequencyBins - 1 + f.split) * hi
    IN IF denominator > 0
       THEN Num(((twiceBins \div denominator) * f.sampleRate) \div (4 * FrequencyBins))
       ELSE Num(DefaultCentroid)

\* a + b, neither of them infinite
JsAdd(a, b) == IF IsFinite(a) /\ IsFinite(b) THEN Num(a.v + b.v) ELSE NaN

\* a || b, a a number
JsOr(a, b) == IF a.k = "nan" \/ (a.k = "num" /\ a.v = 0) THEN b ELSE a

\* What getCurrentAnalysis returns of the spectrum f, as far as the coherence
\* engines read it: treble is presence + brilliance
CurrentAnalysis(f) ==
    LET bands == AnalyzeFrequencyBands(f)
    IN [bass |-> bands["bass"].energy,
        mid |-> bands["mid"].energy,
        treble |-> JsAdd(bands["presence"].energy, bands["brilliance"].energy),
        totalEnergy |-> Num(CalculateTotalEnergy(f)),
        spectralCentroid |-> CalculateSpectralCentroid(f)]

\* energyLevels and spectralCentroid as updateCoherenceState stores them
UpdateCoherenceState(a) ==
    [energyLevels |-> [bass |-> JsOr(a.bass, Num(0)),
                       mid |-> JsOr(a.mid, Num(0)),
                       treble |-> JsOr(a.treble, Num(0)),
                       total |-> JsOr(a.totalEnergy, Num(0))],
     spectralCentroid |-> JsOr(a.spectralCentroid, Num(DefaultCentroid))]

\* energy and frequency.spectralCentroid as updateUnifiedMathFromAudio stores them
UpdateUnifiedMath(a) ==
    [energy |-> [bass |-> a.bass, mid |-> a.mid, treble |-> a.treble,
                 total |-> JsAdd(JsAdd(a.bass, a.mid), a.treble)],
     spectralCentroid |-> a.spectralCentroid]

\* The buffers as the constructors leave them, and the coherence engines, whose
\* constructors run their first update on the new buffer.
InitAnalyzerAt(rate) ==
    /\ spectrum = [sampleRate |-> rate, split |-> 0, low |-> Num(0), high |-> Num(0)]
    /\ coherenceState = UpdateCoherenceState(CurrentAnalysis(spectrum))
    /\ unifiedMath = UpdateUnifiedMath(CurrentAnalysis(spectrum))
    /\ analyzerStage = "acquire"
    /\ directorBands = [band \in DirectorBandNames |-> [energy |-> Num(0), peak |-> Num(0)]]
    /\ generatorBands = [band \in Bands |->
                           [energy |-> Num(0), peak |-> Num(0), dominance |-> Num(0)]]

DefaultSampleRate == 44100

InitAnalyzerState == InitAnalyzerAt(DefaultSampleRate)

\* No recording is being replayed.
InitReplayState ==
    /\ pipelines = <<>>
    /\ recorded = 0

\* No timer is pending and no public method has been called.
InitSinkState ==
    /\ paramTimers = {}
    /\ sinkCalls = 0

\* initializeGameState and the constructor's runState, the fields of the score
InitGameState ==
    /\ gameState = [score |-> 0, combo |-> 0, maxCombo |-> 0, health |-> 100,
                    currentRun |-> 0, runStartTime |-> StartTime,
                    eventsCompleted |-> 0, perfectHits |-> 0, goodHits |-> 0,
                    misses |-> 0, recentPerformance |-> <<>>]
    /\ runState = [currentRun |-> 0, unlockLevel |-> 1]
    /\ scoreCalls = 0

InitScoreState ==
    /\ InitGameState
    /\ hitScript = "perfect"

\* The integration after its constructor: nothing executed, no vibration yet.
InitFeedbackState ==
    /\ executedFeedback = <<>>
    /\ lastHapticTime = 0
    /\ hapticLog = <<>>

\* this.targetFPS
TargetFPS == 60

\* The pools modelled, with the maxSize they are constructed with: the program's
\* new ParticlePool(800, 'danger') and new ParticlePool(500, 'success'), scaled down.
PoolTypes == {"danger", "success"}
PoolSizes == [danger |-> 3, success |-> 2]

\* The keys of this.activeParticles, in the order for...in visits them.
ListOrder == <<"0", "1", "2", "3", "global">>
ListKeys == {ListOrder[i] : i \in 1..Len(ListOrder)}

\* ParticlePool.createParticle (life is counted in updates that are left)
CreateParticle == [active |-> FALSE, life |-> 0]

\* ParticlePool.constructor
NewParticlePool(maxSize) ==
    [maxSize |-> maxSize, activeCount |-> 0,
     pool |-> [i \in 1..maxSize |-> CreateParticle]]

\* The particle system after its constructor: no frame rendered, every pool
\* pre-allocated, every list empty.
InitRenderState ==
    /\ lastFrameTime = 0
    /\ particleFrames = 0
    /\ targetFPS = TargetFPS
    /\ particlePools = [t \in PoolTypes |-> NewParticlePool(PoolSizes[t])]
    /\ activeParticles = [k \in ListKeys |-> <<>>]

InitAuxState ==
    /\ InitReplayState
    /\ InitAnalyzerState
    /\ generators = <<>>
    /\ InitSinkState
    /\ InitRenderState
    /\ InitFeedbackState
    /\ InitScoreState

\* The compensator as its constructor leaves it, init() not yet started.
InitLatencyState ==
    /\ latencyStage = "detectPlatform"
    /\ platformType = "none"
    /\ inputLatency = 0
    /\ outputLatency = 0
    /\ totalLatency = 0
    /\ adaptiveOffset = 0
    /\ isCalibrated = FALSE
    /\ confidence = 0
    /\ adaptationEnabled = TRUE
    /\ monitorTimer = FALSE
    /\ recentMeasurements = <<>>
    /\ slope = 0
    /\ timingScript = "steady"
    /\ measurementLog = <<>>
    /\ emergencyCalled = FALSE
    /\ adaptTicks = 0
    /\ tickSnapshot = <<>>
    /\ setupOutcome = "pending"

(***************************************************************************)
(* Director actions                                                        *)
(***************************************************************************)
\* One pass of processAudio: new frequencyData, then performCompleteAudioAnalysis,
\* which calls detectBeat and then calculateTempo.
PerformCompleteAudioAnalysis ==
    /\ pc = "director"
    /\ "director" \in loops
    /\ frames < FrameLimit
    /\ \E e \in FrameEnergies(now + framePeriod) :
         LET t == now + framePeriod
             d == DetectBeat(energyHistory, beatHistory, lastBeatTime, t, e)
             c == CalculateTempo(d.beatHistory, currentBPM)
         IN /\ now' = t
            /\ frameEnergy' = e
            /\ energyHistory' = d.energyHistory
            /\ beatHistory' = d.beatHistory
            /\ lastBeatTime' = d.lastBeatTime
            /\ lastBeat' = d.beat
            /\ currentBPM' = c.currentBPM
            /\ tempo' = c.result
            /\ energyLog' = Append(energyLog, [time |-> t, energy |-> e])
            /\ beatLog' = IF d.beat.detected THEN Append(beatLog, t) ELSE beatLog
    /\ frames' = frames + 1
    /\ pc' = NextPc("director")
    /\ UNCHANGED <<framePeriod, script, beatInterval, loops>>
    /\ UNCHANGED <<generatorVars, telegraphVars, latencyVars>>
    /\ UNCHANGED <<setupVars, integrationVars, auxVars>>

\* getCurrentAnalysis, called once per frame by a coherence loop: it runs detectBeat
\* on the frequencyData the director already holds.  The loop then calls
\* getBeatInfo and computes the master beat phase (updateCoherenceState,
\* updateUnifiedMathFromAudio).
GetCurrentAnalysis ==
    /\ pc = "reader"
    /\ LET d == DetectBeat(energyHistory, beatHistory, lastBeatTime, now, frameEnergy)
       IN /\ energyHistory' = d.energyHistory
          /\ beatHistory' = d.beatHistory
          /\ lastBeatTime' = d.lastBeatTime
          /\ lastBeat' = d.beat
          /\ energyLog' = Append(energyLog, [time |-> now, energy |-> frameEnergy])
          /\ beatLog' = IF d.beat.detected THEN Append(beatLog, now) ELSE beatLog
          /\ beatPhase' = BeatPhase(now - d.lastBeatTime, currentBPM)
          /\ beatsAtPhase' = Len(beatLog')
    /\ pc' = NextPc("reader")
    /\ UNCHANGED <<now, framePeriod, script, beatInterval, loops, frames,
                   frameEnergy, currentBPM, tempo>>
    /\ UNCHANGED <<generatorVars, telegraphVars, latencyVars>>
    /\ UNCHANGED <<setupVars, paramVars, auxVars>>

(***************************************************************************)
(* Generator and event actions                                             *)
(***************************************************************************)
\* analyzeDynamics: the trend of the energy over the last 10 analyses
AnalyzeDynamics(history) ==
    LET recent == LastN(history, 10)
        energies == [i \in 1..Len(recent) |-> recent[i].energy]
        oldSum == SumSeq(SubSeq(energies, 1, 5))
        newSum == SumSeq(LastN(energies, 5))
    IN IF Len(recent) > 5
       THEN IF 10 * newSum > 12 * oldSum THEN "building"
            ELSE IF 10 * newSum < 8 * oldSum THEN "dropping"
            ELSE "stable"
       ELSE "stable"

\* One pass of the generator's analyzeAudio on a frame with profile a: analyze the
\* frame, push the analysis to analysisHistory, generate and queue the events.
AnalyzeAudio ==
    /\ pc = "generator"
    /\ \E a \in FrameProfiles :
         LET analysis == [timestamp |-> now, energy |-> a.level]
             full == [bands |-> a.bands, level |-> a.level, onsets |-> a.onsets,
                      trend |-> AnalyzeDynamics(analysisHistory)]
             g == GenerateEventsFromAudio(full, recentHits, segmentQueue,
                                          adaptivesDifficulty, currentBPM, now, nextId)
         IN /\ analysisHistory' = PushCapped(analysisHistory, analysis, AnalysisHistoryCap)
            /\ analysisLog' = Append(analysisLog, analysis)
            /\ segmentQueue' = g.queue
            /\ adaptivesDifficulty' = g.difficulty
            /\ nextId' = g.nextId
    /\ pc' = NextPc("generator")
    /\ UNCHANGED <<now, framePeriod, script, beatInterval, loops, frames>>
    /\ UNCHANGED <<eventsSpawned, recentHits, spawnedLog>>
    /\ UNCHANGED <<trackerVars, telegraphVars, latencyVars>>
    /\ UNCHANGED <<setupVars, integrationVars, auxVars>>

\* processAudioEvents: take the next due event and spawn it
ProcessAudioEvents ==
    /\ pc = "events"
    /\ LET r == GetNextEvent(segmentQueue, now)
       IN /\ segmentQueue' = r.queue
          /\ IF r.event # <<>>
             THEN /\ eventsSpawned' = eventsSpawned + 1
                  /\ spawnedLog' = Append(spawnedLog, [event |-> r.event[1], at |-> now])
             ELSE UNCHANGED <<eventsSpawned, spawnedLog>>
    /\ pc' = NextPc("events")
    /\ UNCHANGED <<now, framePeriod, script, beatInterval, loops, frames>>
    /\ UNCHANGED <<analysisHistory, adaptivesDifficulty, recentHits, nextId, analysisLog>>
    /\ UNCHANGED <<trackerVars, telegraphVars, latencyVars>>
    /\ UNCHANGED <<setupVars, integrationVars, auxVars>>

\* The next animation frame begins, the director's audio processing not running.
AdvanceClock ==
    /\ pc = "director"
    /\ "director" \notin loops
    /\ frames < MaxGenFrames
    /\ now' = now + framePeriod
    /\ frames' = frames + 1
    /\ pc' = NextPc("director")
    /\ UNCHANGED <<framePeriod, script, beatInterval, loops>>
    /\ UNCHANGED <<trackerVars, generatorVars, telegraphVars, latencyVars>>
    /\ UNCHANGED <<setupVars, integrationVars, auxVars>>

(***************************************************************************)
(* Telegraph actions                                                       *)
(***************************************************************************)
\* VisualTelegraphSystem.telegraphGeometrySpawn: the list with the new telegraph
TelegraphGeometrySpawn(telegraphs, id, interactionType, timeUntilSpawn, t) ==
    Append(telegraphs,
           [id |-> id, type |-> interactionType, visualType |-> "ring",
            quadrant |-> -1, duration |-> timeUntilSpawn,
            endTime |-> t + timeUntilSpawn])

\* VisualTelegraphSystem.telegraphQuadrantDanger: the list with the new telegraph
TelegraphQuadrantDanger(telegraphs, id, quadrant, duration, t) ==
    Append(telegraphs,
           [id |-> id, type |-> "danger", visualType |-> "border",
            quadrant |-> quadrant, duration |-> duration,
            endTime |-> t + duration])

\* telegraphState keeps timeRemaining in thirds of a millisecond: the frame
\* interval 1000 / 60 it is counted down by is 50 of them.
ThirdsPerMs == 3

\* AudioReactiveParticleSystem.activateQuadrantDanger -> activateTelegraph
ActivateQuadrantDanger(state, quadrant, duration) ==
    [state EXCEPT ![quadrant] = [active |-> TRUE,
                                 timeRemaining |-> duration * ThirdsPerMs]]

\* A game component asks the telegraph system for a geometry warning.
CallTelegraphGeometrySpawn ==
    /\ telegraphCount < MaxTelegraphs
    /\ \E kind \in {"interact", "avoid"}, w \in WarningTimes :
         activeTelegraphs' =
             TelegraphGeometrySpawn(activeTelegraphs, telegraphCount + 1, kind, w, now)
    /\ telegraphCount' = telegraphCount + 1
    /\ UNCHANGED <<telegraphState, dangerSpawned, syncBuffer>>
    /\ UNCHANGED <<directorVars, generatorVars, latencyVars>>
    /\ UNCHANGED <<setupVars, integrationVars, auxVars>>

\* A game component asks the telegraph system for a quadrant danger warning.
CallTelegraphQuadrantDanger ==
    /\ telegraphCount < MaxTelegraphs
    /\ \E q \in WarnedQuadrants, w \in WarningTimes :
         /\ activeTelegraphs' =
                TelegraphQuadrantDanger(activeTelegraphs, telegraphCount + 1, q, w, now)
         /\ telegraphState' = ActivateQuadrantDanger(telegraphState, q, w)
    /\ telegraphCount' = telegraphCount + 1
    /\ UNCHANGED <<dangerSpawned, syncBuffer>>
    /\ UNCHANGED <<directorVars, generatorVars, latencyVars>>
    /\ UNCHANGED <<setupVars, integrationVars, auxVars>>

\* HapticAudioVisualIntegration.triggerDangerWarning
TriggerDangerWarning ==
    /\ telegraphCount < MaxTelegraphs
    /\ \E q \in WarnedQuadrants, w \in WarningTimes :
         /\ activeTelegraphs' =
                TelegraphQuadrantDanger(activeTelegraphs, telegraphCount + 1, q, w, now)
         /\ syncBuffer' = Append(syncBuffer, [type |-> "haptic", pattern |-> "warning",
                                              triggerTime |-> now + w - HapticLeadMs])
         /\ telegraphState' = ActivateQuadrantDanger(
                                  ActivateQuadrantDanger(telegraphState, q, w), q, w)
    /\ telegraphCount' = telegraphCount + 1
    /\ UNCHANGED dangerSpawned
    /\ UNCHANGED <<directorVars, generatorVars, latencyVars>>
    /\ UNCHANGED <<setupVars, integrationVars, auxVars>>

\* HapticAudioVisualIntegration.triggerGeometrySpawnWarning
TriggerGeometrySpawnWarning ==
    /\ telegraphCount < MaxTelegraphs
    /\ \E kind \in {"interact", "avoid"}, w \in WarningTimes :
         /\ activeTelegraphs' =
                TelegraphGeometrySpawn(activeTelegraphs, telegraphCount + 1, kind, w, now)
         /\ syncBuffer' = Append(syncBuffer, [type |-> "visual", pattern |-> kind,
                                              triggerTime |-> now + (w - GuideLeadMs)])
    /\ telegraphCount' = telegraphCount + 1
    /\ UNCHANGED <<telegraphState, dangerSpawned>>
    /\ UNCHANGED <<directorVars, generatorVars, latencyVars>>
    /\ UNCHANGED <<setupVars, integrationVars, auxVars>>

\* The quadrants of the danger telegraphs of ts that are over at time t, in the
\* order update() visits them: from the end of the list to its start.
RECURSIVE CompletedDangers(_, _)
CompletedDangers(ts, t) ==
    IF ts = <<>> THEN <<>>
    ELSE LET last == ts[Len(ts)]
             rest == CompletedDangers(SubSeq(ts, 1, Len(ts) - 1), t)
         IN IF last.endTime - t <= 0 /\ last.type = "danger"
            THEN <<last.quadrant>> \o rest
            ELSE rest

\* VisualTelegraphSystem.update in the next rendered frame: telegraphs whose time
\* is over are completed and removed, a completed danger spawns its particles.
UpdateTelegraphs ==
    /\ frames < MaxTelegraphFrames
    /\ LET t == now + framePeriod
       IN /\ now' = t
          /\ activeTelegraphs' = SelectSeq(activeTelegraphs, LAMBDA g : g.endTime - t > 0)
          /\ dangerSpawned' = dangerSpawned \o CompletedDangers(activeTelegraphs, t)
    /\ frames' = frames + 1
    /\ UNCHANGED <<framePeriod, script, beatInterval, loops, pc>>
    /\ UNCHANGED <<telegraphCount, telegraphState, syncBuffer>>
    /\ UNCHANGED <<trackerVars, generatorVars, latencyVars>>
    /\ UNCHANGED <<setupVars, integrationVars, auxVars>>

(***************************************************************************)
(* Latency compensator actions                                             *)
(***************************************************************************)
\* The constructor's call of init runs detectPlatform before it returns; the
\* public methods can be called from then on, between the later steps of init.
DetectPlatform ==
    /\ latencyStage = "detectPlatform"
    /\ platformType' \in Platforms
    /\ latencyStage' = "setupOptimalAudioContext"
    /\ UNCHANGED <<inputLatency, outputLatency, totalLatency, adaptiveOffset,
                   isCalibrated, confidence, adaptationEnabled, monitorTimer,
                   recentMeasurements, slope, timingScript, measurementLog,
                   emergencyCalled, adaptTicks>>
    /\ UNCHANGED <<tickSnapshot, setupOutcome>>
    /\ UNCHANGED <<directorVars, generatorVars, telegraphVars>>
    /\ UNCHANGED <<setupVars, integrationVars, auxVars>>

\* init, second step: setupOptimalAudioContext.  Either the platform setup and the
\* loopback test run through, the test with or without a detection (then
\* processLatencyMeasurements takes the platform default), or an error is caught
\* and setupFallbackAudio runs.
SetupOptimalAudioContext ==
    /\ latencyStage = "setupOptimalAudioContext"
    /\ \E failed \in BOOLEAN, measured \in LoopbackResults, out \in OutputLatencies :
         /\ failed => measured = <<>>
         /\ platformType # "android" => out = 0
         /\ outputLatency' = out
         /\ inputLatency' = IF failed THEN FallbackInputLatency
                            ELSE PlatformInputLatency(platformType)
         /\ totalLatency' = IF failed THEN totalLatency
                            ELSE IF measured # <<>> THEN measured[1]
                            ELSE PlatformInputLatency(platformType) + ProcessingEstimateMs
         /\ setupOutcome' = IF failed THEN "fallback"
                            ELSE IF measured # <<>> THEN "measured"
                            ELSE "undetected"
    /\ latencyStage' = "performLatencyCalibration"
    /\ UNCHANGED <<platformType, adaptiveOffset, isCalibrated, confidence,
                   adaptationEnabled, monitorTimer, recentMeasurements, slope,
                   timingScript, measurementLog, emergencyCalled, adaptTicks>>
    /\ UNCHANGED tickSnapshot
    /\ UNCHANGED <<directorVars, generatorVars, telegraphVars>>
    /\ UNCHANGED <<setupVars, integrationVars, auxVars>>

\* init, third step: performLatencyCalibration
PerformLatencyCalibration ==
    /\ latencyStage = "performLatencyCalibration"
    /\ isCalibrated' = TRUE
    /\ confidence' = CalibrationConfidence
    /\ adaptiveOffset' = -totalLatency * OffsetScale
    /\ latencyStage' = "startAdaptiveMonitoring"
    /\ UNCHANGED <<platformType, inputLatency, outputLatency, totalLatency,
                   adaptationEnabled, monitorTimer, recentMeasurements, slope,
                   timingScript, measurementLog, emergencyCalled, adaptTicks>>
    /\ UNCHANGED <<tickSnapshot, setupOutcome>>
    /\ UNCHANGED <<directorVars, generatorVars, telegraphVars>>
    /\ UNCHANGED <<setupVars, integrationVars, auxVars>>

\* init, last step: startAdaptiveMonitoring registers the timer if adaptation is enabled
StartAdaptiveMonitoring ==
    /\ latencyStage = "startAdaptiveMonitoring"
    /\ monitorTimer' = adaptationEnabled
    /\ latencyStage' = "done"
    /\ UNCHANGED <<platformType, inputLatency, outputLatency, totalLatency,
                   adaptiveOffset, isCalibrated, confidence, adaptationEnabled,
                   recentMeasurements, slope, timingScript, measurementLog,
                   emergencyCalled, adaptTicks>>
    /\ UNCHANGED <<tickSnapshot, setupOutcome>>
    /\ UNCHANGED <<directorVars, generatorVars, telegraphVars>>
    /\ UNCHANGED <<setupVars, integrationVars, auxVars>>

\* The 1-second timer fires: updateAdaptiveCompensation
UpdateAdaptiveCompensation ==
    /\ monitorTimer
    /\ adaptTicks < TickLimit
    /\ adaptTicks' = adaptTicks + 1
    /\ slope' = IF Len(recentMeasurements) < MinAdaptMeasurements THEN slope
                ELSE Trend(recentMeasurements)
    /\ adaptiveOffset' = AdaptedOffset(recentMeasurements, adaptiveOffset)
    /\ UNCHANGED <<latencyStage, platformType, inputLatency, outputLatency,
                   totalLatency, isCalibrated, confidence, adaptationEnabled,
                   monitorTimer, recentMeasurements, timingScript, measurementLog,
                   emergencyCalled>>
    /\ tickSnapshot' = recentMeasurements
    /\ UNCHANGED setupOutcome
    /\ UNCHANGED <<directorVars, generatorVars, telegraphVars>>
    /\ UNCHANGED <<setupVars, integrationVars, auxVars>>

\* recordTimingMeasurement(expectedTime, actualTime), called by a game component
RecordTimingMeasurement ==
    /\ latencyStage # "detectPlatform"
    /\ Len(measurementLog) < MeasurementLimit
    /\ LET error == TimingError(Len(measurementLog))
       IN /\ recentMeasurements' = PushCapped(recentMeasurements, error, 2 * WindowSize)
          /\ measurementLog' = Append(measurementLog, error)
    /\ UNCHANGED <<latencyStage, platformType, inputLatency, outputLatency,
                   totalLatency, adaptiveOffset, isCalibrated, confidence,
                   adaptationEnabled, monitorTimer, slope, timingScript,
                   emergencyCalled, adaptTicks>>
    /\ UNCHANGED <<tickSnapshot, setupOutcome>>
    /\ UNCHANGED <<directorVars, generatorVars, telegraphVars>>
    /\ UNCHANGED <<setupVars, integrationVars, auxVars>>

\* enableEmergencyMode()
EnableEmergencyMode ==
    /\ latencyStage # "detectPlatform"
    /\ adaptationEnabled' = FALSE
    /\ adaptiveOffset' = -EmergencyOffsetMs * OffsetScale
    /\ emergencyCalled' = TRUE
    /\ UNCHANGED <<latencyStage, platformType, inputLatency, outputLatency,
                   totalLatency, isCalibrated, confidence, monitorTimer,
                   recentMeasurements, slope, timingScript, measurementLog, adaptTicks>>
    /\ UNCHANGED <<tickSnapshot, setupOutcome>>
    /\ UNCHANGED <<directorVars, generatorVars, telegraphVars>>
    /\ UNCHANGED <<setupVars, integrationVars, auxVars>>

\* resetCalibration(): clears the measurements and calibrates again
ResetCalibration ==
    /\ latencyStage # "detectPlatform"
    /\ recentMeasurements' = <<>>
    /\ isCalibrated' = TRUE
    /\ confidence' = CalibrationConfidence
    /\ adaptiveOffset' = -totalLatency * OffsetScale
    /\ UNCHANGED <<latencyStage, platformType, inputLatency, outputLatency,
                   totalLatency, adaptationEnabled, monitorTimer, slope, timingScript,
                   measurementLog, emergencyCalled, adaptTicks>>
    /\ UNCHANGED <<tickSnapshot, setupOutcome>>
    /\ UNCHANGED <<directorVars, generatorVars, telegraphVars>>
    /\ UNCHANGED <<setupVars, integrationVars, auxVars>>

\* The frame callback of a game component that records one timing measurement.
InputCallback ==
    /\ pc = "input"
    /\ LET error == TimingError(Len(measurementLog))
       IN /\ recentMeasurements' = PushCapped(recentMeasurements, error, 2 * WindowSize)
          /\ measurementLog' = Append(measurementLog, error)
    /\ pc' = NextPc("input")
    /\ UNCHANGED <<now, framePeriod, script, beatInterval, loops, frames>>
    /\ UNCHANGED <<latencyStage, platformType, inputLatency, outputLatency,
                   totalLatency, adaptiveOffset, isCalibrated, confidence,
                   adaptationEnabled, monitorTimer, slope, timingScript,
                   emergencyCalled, adaptTicks>>
    /\ UNCHANGED <<tickSnapshot, setupOutcome>>
    /\ UNCHANGED <<trackerVars, generatorVars, telegraphVars>>
    /\ UNCHANGED <<setupVars, integrationVars, auxVars>>

\* The compensator's interval timer seen from the frame: once a second it runs
\* updateAdaptiveCompensation, in the other frames nothing.
TimerCallback ==
    /\ pc = "timer"
    /\ IF monitorTimer /\ (now - StartTime) % 1000 = 0
       THEN /\ adaptTicks' = adaptTicks + 1
            /\ slope' = IF Len(recentMeasurements) < MinAdaptMeasurements THEN slope
                        ELSE Trend(recentMeasurements)
            /\ adaptiveOffset' = AdaptedOffset(recentMeasurements, adaptiveOffset)
            /\ tickSnapshot' = recentMeasurements
       ELSE UNCHANGED <<adaptTicks, slope, adaptiveOffset, tickSnapshot>>
    /\ pc' = NextPc("timer")
    /\ UNCHANGED <<now, framePeriod, script, beatInterval, loops, frames>>
    /\ UNCHANGED <<latencyStage, platformType, inputLatency, outputLatency,
                   totalLatency, isCalibrated, confidence, adaptationEnabled,
                   monitorTimer, recentMeasurements, timingScript, measurementLog,
                   emergencyCalled>>
    /\ UNCHANGED setupOutcome
    /\ UNCHANGED <<trackerVars, generatorVars, telegraphVars>>
    /\ UNCHANGED <<setupVars, integrationVars, auxVars>>

(***************************************************************************)
(* Specification of the beat tracker under any energy sequence             *)
(***************************************************************************)
Init ==
    /\ InitClock
    /\ InitTracker
    /\ InitGeneratorState
    /\ InitTelegraphState
    /\ InitSetupState
    /\ InitIntegrationState
    /\ InitAuxState
    /\ InitLatencyState
    /\ script = "free"
    /\ beatInterval = 0
    /\ framePeriod \in FramePeriods
    /\ loops \in {{"director"}, {"director", "reader"}}

Next ==
    \/ PerformCompleteAudioAnalysis
    \/ GetCurrentAnalysis

Spec == Init /\ [][Next]_vars

(***************************************************************************)
(* Specification of the beat tracker fed by a metronome                    *)
(***************************************************************************)
InitMetronome ==
    /\ InitClock
    /\ InitTracker
    /\ InitGeneratorState
    /\ InitTelegraphState
    /\ InitSetupState
    /\ InitIntegrationState
    /\ InitAuxState
    /\ InitLatencyState
    /\ script = "metronome"
    /\ beatInterval \in Intervals
    /\ framePeriod \in MetroPeriods
    /\ loops \in {{"director"}, {"director", "reader"}}

SpecMetronome == InitMetronome /\ [][Next]_vars

(***************************************************************************)
(* Specification of the level generator's spawn queue: each frame the      *)
(* generator analyses a spectrum and the director spawns at most one event *)
(***************************************************************************)
InitGen ==
    /\ InitClock
    /\ InitTelegraphState
    /\ InitSetupState
    /\ InitIntegrationState
    /\ InitAuxState
    /\ InitLatencyState
    /\ frameEnergy = Quiet
    /\ energyHistory = <<>>
    /\ beatHistory = <<>>
    /\ lastBeatTime = 0
    /\ \E t \in TempoSamples : currentBPM = t * BpmScale /\ tempo = t * BpmScale
    /\ lastBeat = [detected |-> FALSE, timeSinceLastBeat |-> 0]
    /\ energyLog = <<>>
    /\ beatLog = <<>>
    /\ segmentQueue = <<>>
    /\ analysisHistory = <<>>
    /\ adaptivesDifficulty \in DifficultySamples
    /\ eventsSpawned = 0
    /\ recentHits \in HitSamples
    /\ nextId = 0
    /\ spawnedLog = <<>>
    /\ analysisLog = <<>>
    /\ script = "free"
    /\ beatInterval = 0
    /\ framePeriod \in GenPeriods
    /\ loops = {"generator", "events"}

NextGen ==
    \/ AdvanceClock
    \/ AnalyzeAudio
    \/ ProcessAudioEvents

SpecGen == InitGen /\ [][NextGen]_vars

(***************************************************************************)
(* Specification of the telegraph system and the integration's warnings    *)
(***************************************************************************)
InitTelegraph ==
    /\ InitClock
    /\ InitTracker
    /\ InitGeneratorState
    /\ InitTelegraphState
    /\ InitSetupState
    /\ InitIntegrationState
    /\ InitAuxState
    /\ InitLatencyState
    /\ script = "free"
    /\ beatInterval = 0
    /\ framePeriod \in TelegraphPeriods
    /\ loops = {}

NextTelegraph ==
    \/ CallTelegraphGeometrySpawn
    \/ CallTelegraphQuadrantDanger
    \/ TriggerDangerWarning
    \/ TriggerGeometrySpawnWarning
    \/ UpdateTelegraphs

SpecTelegraph == InitTelegraph /\ [][NextTelegraph]_vars

(***************************************************************************)
(* Specification of the latency compensator                                *)
(***************************************************************************)
InitLatency ==
    /\ InitClock
    /\ InitTracker
    /\ InitGeneratorState
    /\ InitTelegraphState
    /\ InitSetupState
    /\ InitIntegrationState
    /\ InitAuxState
    /\ latencyStage = "detectPlatform"
    /\ platformType = "none"
    /\ inputLatency = 0
    /\ outputLatency = 0
    /\ totalLatency = 0
    /\ adaptiveOffset = 0
    /\ isCalibrated = FALSE
    /\ confidence = 0
    /\ adaptationEnabled = TRUE
    /\ monitorTimer = FALSE
    /\ recentMeasurements = <<>>
    /\ slope = 0
    /\ timingScript \in TimingScripts
    /\ measurementLog = <<>>
    /\ emergencyCalled = FALSE
    /\ adaptTicks = 0
    /\ tickSnapshot = <<>>
    /\ setupOutcome = "pending"
    /\ script = "free"
    /\ beatInterval = 0
    /\ framePeriod \in GenPeriods
    /\ loops = {}

NextLatency ==
    \/ DetectPlatform
    \/ SetupOptimalAudioContext
    \/ PerformLatencyCalibration
    \/ StartAdaptiveMonitoring
    \/ UpdateAdaptiveCompensation
    \/ RecordTimingMeasurement
    \/ EnableEmergencyMode
    \/ ResetCalibration

SpecLatency == InitLatency /\ [][NextLatency]_vars

(***************************************************************************)
(* Specification of the seeded adaptation: the compensator calibrated with *)
(* no loopback detection, 20 measurements of +40 ms, the timer running     *)
(***************************************************************************)
InitSeeded ==
    /\ InitClock
    /\ InitTracker
    /\ InitGeneratorState
    /\ InitTelegraphState
    /\ InitSetupState
    /\ InitIntegrationState
    /\ InitAuxState
    /\ latencyStage = "done"
    /\ platformType \in Platforms
    /\ inputLatency = PlatformInputLatency(platformType)
    /\ outputLatency = 0
    /\ totalLatency = inputLatency + ProcessingEstimateMs
    /\ adaptiveOffset = -totalLatency * OffsetScale
    /\ isCalibrated = TRUE
    /\ confidence = CalibrationConfidence
    /\ adaptationEnabled = TRUE
    /\ monitorTimer = TRUE
    /\ recentMeasurements = <<>>
    /\ slope = 0
    /\ timingScript = "seeded"
    /\ measurementLog = <<>>
    /\ emergencyCalled = FALSE
    /\ adaptTicks = 0
    /\ tickSnapshot = <<>>
    /\ setupOutcome = "undetected"
    /\ script = "free"
    /\ beatInterval = 0
    /\ framePeriod \in GenPeriods
    /\ loops = {}

NextSeeded ==
    \/ RecordTimingMeasurement
    \/ UpdateAdaptiveCompensation

SpecSeeded == InitSeeded /\ [][NextSeeded]_vars

(***************************************************************************)
(* The director's asynchronous init and the start of the frame loops       *)
(***************************************************************************)
\* No loop has run yet.
NotRun == [ran |-> FALSE, director |-> "none", latency |-> "none"]

\* The setup stages at the moment a loop runs for the first time.
RunNow == [ran |-> TRUE, director |-> initStage, latency |-> latencyStage]

\* The missing object one processAudio tick dereferences, "none" if the tick
\* runs to its requestAnimationFrame.  unified: synthetic data or a guarded read
\* of the analyser, analyzeFrequencyBands reads audioContext.sampleRate,
\* updateLevelContent calls levelGenerator.generateEventsFromAudio.  core: the
\* analyser is read unguarded first.
TickFault(variant, context, analyser, generator) ==
    IF variant = "core" /\ ~analyser THEN "analyser"
    ELSE IF ~context THEN "audioContext"
    ELSE IF ~generator THEN "levelGenerator"
    ELSE "none"

\* init, first step, run inside the constructor: initializeAudioContext
InitializeAudioContext ==
    /\ initStage = "initializeAudioContext"
    /\ \E outcome \in ContextOutcomes :
         /\ outcome = "constructorThrows" => ~audioContextReady
         /\ audioContextReady' = (outcome # "constructorThrows")
         /\ analyserReady' = (outcome = "created")
         /\ inputMode' = IF outcome = "created" THEN inputMode ELSE "synthetic"
         /\ acquisition' = CASE outcome = "created" -> acquisition
                              [] outcome = "constructorThrows" -> "contextFailed"
                              [] outcome = "createAnalyserThrows" -> "analyserFailed"
    /\ initStage' = "setupMicrophoneInput"
    /\ UNCHANGED <<directorVariant, levelGeneratorReady, isActive, loopScheduled,
                   tickFault, processedFrames, firstRun>>
    /\ UNCHANGED <<directorVars, generatorVars, telegraphVars, latencyVars,
                   integrationVars, auxVars>>

\* init, second step: setupMicrophoneInput up to its await of getUserMedia, or
\* its early return when the mode is no longer 'microphone'
SetupMicrophoneInput ==
    /\ initStage = "setupMicrophoneInput"
    /\ initStage' = IF inputMode # "microphone" THEN "startAudioProcessing"
                    ELSE "getUserMedia"
    /\ UNCHANGED <<directorVariant, inputMode, audioContextReady, analyserReady,
                   levelGeneratorReady, isActive, loopScheduled, tickFault,
                   processedFrames, acquisition, firstRun>>
    /\ UNCHANGED <<directorVars, generatorVars, telegraphVars, latencyVars,
                   integrationVars, auxVars>>

\* setupMicrophoneInput after getUserMedia settles: the stream is connected, or
\* the catch switches to synthetic mode
GetUserMedia ==
    /\ initStage = "getUserMedia"
    /\ \E granted \in BOOLEAN :
         /\ inputMode' = IF granted THEN inputMode ELSE "synthetic"
         /\ acquisition' = IF granted THEN "microphone" ELSE "microphoneFailed"
    /\ initStage' = "startAudioProcessing"
    /\ UNCHANGED <<directorVariant, audioContextReady, analyserReady,
                   levelGeneratorReady, isActive, loopScheduled, tickFault,
                   processedFrames, firstRun>>
    /\ UNCHANGED <<directorVars, generatorVars, telegraphVars, latencyVars,
                   integrationVars, auxVars>>

\* init, the synchronous rest: initializeGameState, initializeLevelGenerator
\* (core constructs the generator, whose constructor runs analyzeAudio once;
\* unified sets levelGenerator = null), startAudioProcessing with its first
\* processAudio tick, and, if that returns, startDemoMode in synthetic mode.
StartAudioProcessing ==
    /\ initStage = "startAudioProcessing"
    /\ levelGeneratorReady' = (directorVariant = "core")
    /\ isActive' = TRUE
    /\ LET fault == TickFault(directorVariant, audioContextReady, analyserReady,
                              levelGeneratorReady')
       IN /\ tickFault' = fault
          /\ loopScheduled' = (fault = "none")
          /\ processedFrames' = IF fault = "none" THEN 1 ELSE 0
          /\ initStage' = IF fault = "none" THEN "done" ELSE "rejected"
    /\ firstRun' = [l \in AnalysisLoops |->
                      IF firstRun[l].ran THEN firstRun[l]
                      ELSE IF l = "processAudio" THEN RunNow
                      ELSE IF l = "analyzeAudio" /\ directorVariant = "core" THEN RunNow
                      ELSE firstRun[l]]
    /\ UNCHANGED <<directorVariant, inputMode, audioContextReady, analyserReady,
                   acquisition>>
    /\ UNCHANGED <<directorVars, generatorVars, telegraphVars, latencyVars,
                   integrationVars, auxVars>>

\* One later animation frame of processAudio.
ProcessAudio ==
    /\ loopScheduled
    /\ processedFrames < MaxSetupFrames
    /\ LET fault == TickFault(directorVariant, audioContextReady, analyserReady,
                              levelGeneratorReady)
       IN /\ tickFault' = fault
          /\ loopScheduled' = (fault = "none")
          /\ processedFrames' = IF fault = "none" THEN processedFrames + 1
                                ELSE processedFrames
    /\ UNCHANGED <<directorVariant, initStage, inputMode, audioContextReady,
                   analyserReady, levelGeneratorReady, isActive, acquisition, firstRun>>
    /\ UNCHANGED <<directorVars, generatorVars, telegraphVars, latencyVars,
                   integrationVars, auxVars>>

\* new CorrectedVIB34DIntegration(director): its constructor calls init, which
\* calls startIntegrationLoop, which runs updateCycle once before returning.
ConstructIntegration ==
    /\ initStage # "initializeAudioContext"
    /\ ~firstRun["updateCycle"].ran
    /\ firstRun' = [firstRun EXCEPT !["updateCycle"] = RunNow]
    /\ UNCHANGED <<directorVariant, initStage, inputMode, audioContextReady,
                   analyserReady, levelGeneratorReady, isActive, loopScheduled,
                   tickFault, processedFrames, acquisition>>
    /\ UNCHANGED <<directorVars, generatorVars, telegraphVars, latencyVars,
                   integrationVars, auxVars>>

\* new AudioDrivenLevelGenerator(director, gameState) by the code that wires the
\* unified director: its constructor calls init, which runs analyzeAudio once.
ConstructLevelGenerator ==
    /\ directorVariant = "unified"
    /\ initStage # "initializeAudioContext"
    /\ ~firstRun["analyzeAudio"].ran
    /\ firstRun' = [firstRun EXCEPT !["analyzeAudio"] = RunNow]
    /\ UNCHANGED <<directorVariant, initStage, inputMode, audioContextReady,
                   analyserReady, levelGeneratorReady, isActive, loopScheduled,
                   tickFault, processedFrames, acquisition>>
    /\ UNCHANGED <<directorVars, generatorVars, telegraphVars, latencyVars,
                   integrationVars, auxVars>>

(***************************************************************************)
(* Specification of the setup: a director and a latency compensator are    *)
(* constructed, their inits run, the frame loops start                     *)
(***************************************************************************)
InitSetup ==
    /\ InitClock
    /\ InitTracker
    /\ InitGeneratorState
    /\ InitTelegraphState
    /\ InitIntegrationState
    /\ InitAuxState
    /\ InitLatencyState
    /\ directorVariant \in DirectorVariants
    /\ initStage = "initializeAudioContext"
    /\ inputMode = "microphone"
    /\ audioContextReady \in (IF directorVariant = "unified" THEN BOOLEAN ELSE {FALSE})
    /\ analyserReady = FALSE
    /\ levelGeneratorReady = FALSE
    /\ isActive = FALSE
    /\ loopScheduled = FALSE
    /\ tickFault = "none"
    /\ processedFrames = 0
    /\ acquisition = "pending"
    /\ firstRun = [l \in AnalysisLoops |-> NotRun]
    /\ script = "free"
    /\ beatInterval = 0
    /\ framePeriod \in GenPeriods
    /\ loops = {}

NextSetup ==
    \/ InitializeAudioContext
    \/ SetupMicrophoneInput
    \/ GetUserMedia
    \/ StartAudioProcessing
    \/ ProcessAudio
    \/ ConstructIntegration
    \/ ConstructLevelGenerator
    \/ DetectPlatform
    \/ SetupOptimalAudioContext
    \/ PerformLatencyCalibration
    \/ StartAdaptiveMonitoring

SpecSetup == InitSetup /\ [][NextSetup]_vars

(***************************************************************************)
(* Specification of the beat phase: a steady 120-BPM metronome, the        *)
(* director's loop and a coherence loop                                    *)
(***************************************************************************)
\* 120 beats per minute: a loud frame every 500 ms
SteadyIntervals == {500}

PhasePeriods == {50, 100, 250}

InitPhase ==
    /\ InitClock
    /\ InitTracker
    /\ InitGeneratorState
    /\ InitTelegraphState
    /\ InitSetupState
    /\ InitIntegrationState
    /\ InitAuxState
    /\ InitLatencyState
    /\ script = "metronome"
    /\ beatInterval \in SteadyIntervals
    /\ framePeriod \in PhasePeriods
    /\ loops = {"director", "reader"}

SpecPhase == InitPhase /\ [][Next]_vars

(***************************************************************************)
(* The consumers of one frame's analysis                                   *)
(***************************************************************************)
\* The director has analysed a new frame; the consumers read it in turn.
AnalyseFrame ==
    /\ coherenceStage = "analysis"
    /\ audioData' \in AudioFrames
    /\ coherenceStage' = "integration"
    /\ UNCHANGED <<beatPhase, beatsAtPhase, currentParams, sinkValue, prevSink,
                   forwardedNow, unifiedRotation, visualizerRotation>>
    /\ UNCHANGED <<directorVars, generatorVars, telegraphVars, latencyVars, setupVars,
                   auxVars>>

\* updateCycle of CorrectedVIB34DIntegration: updateCoherenceState,
\* calculateCoherentParameters, calculateVisualFeedbackEffects,
\* updateVIB34DParameters, updateVisualFeedbackParameters
UpdateCycle ==
    /\ coherenceStage = "integration"
    /\ LET phase == BeatPhase(audioData.timeSince, audioData.bpm)
           new == CalculateCoherentParameters(audioData, phase)
                    @@ CalculateVisualFeedbackEffects(audioData)
           changed == ChangedParams(currentParams, new)
       IN /\ beatPhase' = phase
          /\ currentParams' = [p \in DOMAIN currentParams |->
                                 IF p \in changed THEN new[p] ELSE currentParams[p]]
          /\ sinkValue' = [p \in DOMAIN sinkValue |->
                             IF p \in changed THEN [sent |-> TRUE, value |-> new[p]]
                             ELSE sinkValue[p]]
          /\ prevSink' = sinkValue
          /\ forwardedNow' = changed
    /\ coherenceStage' = "unified"
    /\ UNCHANGED <<beatsAtPhase, audioData, unifiedRotation, visualizerRotation>>
    /\ UNCHANGED <<directorVars, generatorVars, telegraphVars, latencyVars, setupVars,
                   auxVars>>

\* updateUnifiedMathFromAudio of MathematicallyCoherentVisualSystem
UpdateUnifiedMathFromAudio ==
    /\ coherenceStage = "unified"
    /\ unifiedRotation' = UnifiedMathRotation(audioData)
    /\ coherenceStage' = "visualizer"
    /\ UNCHANGED <<beatPhase, beatsAtPhase, audioData, currentParams, sinkValue,
                   prevSink, forwardedNow, visualizerRotation>>
    /\ UNCHANGED <<directorVars, generatorVars, telegraphVars, latencyVars, setupVars,
                   auxVars>>

\* updateVisualizerFromAudio of the director, on the next frame's processAudio
UpdateVisualizerFromAudio ==
    /\ coherenceStage = "visualizer"
    /\ visualizerRotation' = VisualizerRotation(audioData)
    /\ coherenceStage' = "analysis"
    /\ UNCHANGED <<beatPhase, beatsAtPhase, audioData, currentParams, sinkValue,
                   prevSink, forwardedNow, unifiedRotation>>
    /\ UNCHANGED <<directorVars, generatorVars, telegraphVars, latencyVars, setupVars,
                   auxVars>>

(***************************************************************************)
(* Specification of the visual parameters: sampled analyses, frame after   *)
(* frame, through the three components that derive parameters from them    *)
(***************************************************************************)
InitCoherence ==
    /\ InitClock
    /\ InitTracker
    /\ InitGeneratorState
    /\ InitTelegraphState
    /\ InitSetupState
    /\ InitIntegrationState
    /\ InitAuxState
    /\ InitLatencyState
    /\ script = "free"
    /\ beatInterval = 0
    /\ framePeriod \in GenPeriods
    /\ loops = {}

NextCoherence ==
    \/ AnalyseFrame
    \/ UpdateCycle
    \/ UpdateUnifiedMathFromAudio
    \/ UpdateVisualizerFromAudio

SpecCoherence == InitCoherence /\ [][NextCoherence]_vars

(***************************************************************************)
(* Specification of a whole session: every frame callback registered, the  *)
(* audio a metronome, the compensator calibrated on a desktop              *)
(***************************************************************************)
InitSession ==
    /\ InitClock
    /\ InitTracker
    /\ InitGeneratorState
    /\ InitTelegraphState
    /\ InitSetupState
    /\ InitIntegrationState
    /\ InitAuxState
    /\ latencyStage = "done"
    /\ platformType = "desktop"
    /\ inputLatency = PlatformInputLatency("desktop")
    /\ outputLatency = 0
    /\ totalLatency = PlatformInputLatency("desktop") + ProcessingEstimateMs
    /\ adaptiveOffset = -(PlatformInputLatency("desktop") + ProcessingEstimateMs) * OffsetScale
    /\ isCalibrated = TRUE
    /\ confidence = CalibrationConfidence
    /\ adaptationEnabled = TRUE
    /\ monitorTimer = TRUE
    /\ recentMeasurements = <<>>
    /\ slope = 0
    /\ timingScript = "jitter"
    /\ measurementLog = <<>>
    /\ emergencyCalled = FALSE
    /\ adaptTicks = 0
    /\ tickSnapshot = <<>>
    /\ setupOutcome = "undetected"
    /\ script = "metronome"
    /\ beatInterval \in SessionIntervals
    /\ framePeriod \in MetroPeriods
    /\ loops = {"director", "reader", "generator", "events", "input", "timer"}

NextSession ==
    \/ PerformCompleteAudioAnalysis
    \/ GetCurrentAnalysis
    \/ AnalyzeAudio
    \/ ProcessAudioEvents
    \/ InputCallback
    \/ TimerCallback

SpecSession == InitSession /\ [][NextSession]_vars

(***************************************************************************)
(* Properties of the beat and tempo tracker                                *)
(***************************************************************************)
Gaps(s) == {s[i + 1] - s[i] : i \in 1..(Len(s) - 1)}

\* C1: no beat is accepted less than 300 ms after the previously accepted beat:
\* consecutive accepted beats, in beatHistory and over the whole session, are at
\* least 300 ms apart, and lastBeatTime is the latest accepted beat.
C1_RefractoryPeriod ==
    /\ \A g \in Gaps(beatLog) : g >= RefractoryMs
    /\ \A g \in Gaps(beatHistory) : g >= RefractoryMs
    /\ beatLog # <<>> => lastBeatTime = beatLog[Len(beatLog)]
    /\ lastBeat.detected => lastBeatTime = now

\* Two beats accepted, the later one just now, after an energy peak that came
\* too early was refused.
C1_Witness ==
    /\ script = "free"
    /\ Len(beatHistory) >= 2
    /\ lastBeat.detected
    /\ \E i \in 1..Len(energyLog) :
         /\ energyLog[i].energy = Loud
         /\ energyLog[i].time > beatLog[1]
         /\ energyLog[i].time - beatLog[1] < RefractoryMs
         /\ \A j \in 1..Len(beatLog) : beatLog[j] # energyLog[i].time

\* C8: the stored currentBPM, which getCurrentBPM() and getBeatInfo().bpm expose,
\* and the value calculateTempo returns all lie in [60, 200].
C8_BpmClamped ==
    /\ MinBPM * BpmScale <= currentBPM /\ currentBPM <= MaxBPM * BpmScale
    /\ MinBPM * BpmScale <= tempo /\ tempo <= MaxBPM * BpmScale

\* The beats accepted so far form a train of constant interval beatInterval.
ConstantTrain == \A g \in Gaps(beatLog) : g = beatInterval

\* C9: for accepted beats spaced at a constant interval I, 600 <= I <= 1000, the
\* stored currentBPM is within 5 of 60000/I from the 10th accepted beat on.
C9_TempoConverges ==
    (/\ script = "metronome"
     /\ 600 <= beatInterval /\ beatInterval <= 1000
     /\ ConstantTrain
     /\ Len(beatLog) >= 10)
    => /\ currentBPM * beatInterval - 60000 * BpmScale <= 5 * BpmScale * beatInterval
       /\ 60000 * BpmScale - currentBPM * beatInterval <= 5 * BpmScale * beatInterval

C9_Witness ==
    /\ script = "metronome"
    /\ beatInterval = 1000
    /\ ConstantTrain
    /\ Len(beatLog) >= 12

(***************************************************************************)
(* Properties of the spawn queue                                           *)
(***************************************************************************)
\* Every event the generator has produced so far: queued or already handed over.
ProducedEvents ==
    {segmentQueue[i] : i \in 1..Len(segmentQueue)}
        \cup {spawnedLog[i].event : i \in 1..Len(spawnedLog)}

C5_SpawnedOnceWhenDue ==
    /\ \A i, j \in 1..Len(spawnedLog) :
         i # j => spawnedLog[i].event.id # spawnedLog[j].event.id
    /\ \A i \in 1..Len(spawnedLog) : spawnedLog[i].event.spawnTime <= spawnedLog[i].at
    /\ \A i \in 1..Len(spawnedLog), k \in 1..Len(segmentQueue) :
         spawnedLog[i].event.id # segmentQueue[k].id
    /\ eventsSpawned = Len(spawnedLog)

\* Two events handed over while an event that is not due yet waits at the head.
C5_Witness ==
    /\ Len(spawnedLog) >= 2
    /\ segmentQueue # <<>>
    /\ Head(segmentQueue).spawnTime > now
    /\ pc = "director"

\* C6: the spawn queue stays below a bound fixed for the session; here the bound
\* allows three queued events for every frame of the session.
C6_QueueBounded == Len(segmentQueue) <= 3 * MaxGenFrames

(***************************************************************************)
(* Properties of the rolling buffers                                       *)
(***************************************************************************)
\* C7: energyHistory holds at most 50 entries, beatHistory at most 20,
\* recentMeasurements at most 100, analysisHistory at most 100, and each holds the
\* most recent entries that were pushed to it, in arrival order.
C7_RollingBuffers ==
    /\ Len(energyHistory) <= EnergyHistoryCap
    /\ Len(beatHistory) <= BeatHistoryCap
    /\ Len(recentMeasurements) <= 2 * WindowSize
    /\ Len(analysisHistory) <= AnalysisHistoryCap
    /\ energyHistory = LastN(energyLog, EnergyHistoryCap)
    /\ beatHistory = LastN(beatLog, BeatHistoryCap)
    /\ recentMeasurements = LastN(measurementLog, 2 * WindowSize)
    /\ analysisHistory = LastN(analysisLog, AnalysisHistoryCap)

\* Every one of the four buffers has overflowed.
C7_Witness ==
    /\ Len(energyLog) > EnergyHistoryCap
    /\ Len(beatLog) > BeatHistoryCap
    /\ Len(measurementLog) > 2 * WindowSize
    /\ Len(analysisLog) > AnalysisHistoryCap

(***************************************************************************)
(* Properties of the telegraphs                                            *)
(***************************************************************************)
\* C3: every registered telegraph has a warning duration of at least 3000 ms.
C3_TelegraphMinimum ==
    \A i \in 1..Len(activeTelegraphs) : activeTelegraphs[i].duration >= MinTelegraphMs

(***************************************************************************)
(* Properties of the latency compensator                                   *)
(***************************************************************************)
\* C10: once enableEmergencyMode has been called, adaptiveOffset is -100 ms, and
\* no calibration step or timer tick changes it.
C10_EmergencyOffsetFixed ==
    emergencyCalled => adaptiveOffset = -EmergencyOffsetMs * OffsetScale

\* C11: adaptiveOffset stays between -300 ms and +300 ms in every reachable state:
\* after the calibration seeds it, after adaptation ticks, after emergency mode.
C11_OffsetBounded ==
    /\ -300 * OffsetScale <= adaptiveOffset
    /\ adaptiveOffset <= 300 * OffsetScale

\* C12: a timer tick that finds recentMeasurements as the tick before it left
\* them (no measurement recorded in between) leaves adaptiveOffset as it is.
C12_StaleTickHoldsOffset ==
    [][(/\ adaptTicks' = adaptTicks + 1
        /\ adaptTicks > 0
        /\ tickSnapshot = recentMeasurements)
       => adaptiveOffset' = adaptiveOffset]_vars

\* C13: once the 20 measurements of +40 ms are recorded, the correction the ticks
\* have applied (calibrated offset minus adaptiveOffset) is never of the wrong sign
\* and never beyond twice the 40 ms error: it settles near 40 ms and stops.
C13_CorrectionSettles ==
    (timingScript = "seeded" /\ Len(measurementLog) = 20)
        => LET correction == (-totalLatency * OffsetScale) - adaptiveOffset
           IN /\ correction >= 0
              /\ correction <= 2 * 40 * OffsetScale

\* C14: when the loopback measurement was inconclusive (nothing detected, or the
\* setup threw and the fallback configuration was used), a compensator whose init
\* has completed has totalLatency = inputLatency + 20 ms (positive), a confidence below the one
\* of a successful measurement, and, until something else moves it, an
\* adaptiveOffset of -totalLatency.
C14_FailureRecovered ==
    (/\ latencyStage = "done"
     /\ setupOutcome \in {"undetected", "fallback"})
        => /\ totalLatency = inputLatency + ProcessingEstimateMs
           /\ totalLatency > 0
           /\ confidence < CalibrationConfidence
           /\ (~emergencyCalled /\ adaptTicks = 0)
                 => adaptiveOffset = -totalLatency * OffsetScale

\* C15: when audio acquisition has failed (AudioContext construction,
\* createAnalyser or microphone access), inputMode is 'synthetic', init has not
\* been rejected, and no processAudio tick has dereferenced a missing object: the
\* loop stays scheduled once it has started.
C15_AcquisitionFailureNotFatal ==
    acquisition \in {"contextFailed", "analyserFailed", "microphoneFailed"}
        => /\ inputMode = "synthetic"
           /\ initStage # "rejected"
           /\ tickFault = "none"
           /\ (initStage = "done" => loopScheduled)

\* C16: a loop that reads audio analysis runs for the first time only when the
\* director's init is past audio-context creation and microphone setup and the
\* compensator's init is past performLatencyCalibration.
C16_NoTickBeforeSetup ==
    \A l \in AnalysisLoops :
        firstRun[l].ran
            => /\ firstRun[l].director \in {"startAudioProcessing", "done", "rejected"}
               /\ firstRun[l].latency \in {"startAdaptiveMonitoring", "done"}

\* C17: on a steady 120-BPM train the master beat phase is a sawtooth.  A
\* computation with no beat accepted since the one before it gives a phase that
\* is not smaller; the first computation after a beat was accepted gives a phase
\* of at most one frame of elapsed time.
C17_BeatPhaseSawtooth ==
    [][(pc = "reader" /\ script = "metronome" /\ beatInterval = 500)
          => IF Len(beatLog') = beatsAtPhase
             THEN beatPhase' >= beatPhase
             ELSE /\ beatPhase' >= 0
                  /\ beatPhase' <= (TwoPiMilli * framePeriod) \div beatInterval]_vars

\* Two beats of the 120-BPM train have been accepted and the phase, reset by the
\* second, has risen again to a value inside the beat.
C17_Witness ==
    /\ script = "metronome"
    /\ beatInterval = 500
    /\ Len(beatLog) >= 2
    /\ beatsAtPhase = Len(beatLog)
    /\ beatPhase > 0
    /\ beatPhase < TwoPiMilli

\* C18: once the integration, the coherent visual system and the director's
\* visualizer update have all processed the same analysis, their XW, YW and ZW
\* rotation values are identical (the integration's being sin(master)*bass*2,
\* cos(master*1.5)*mid*2 and sin(master*0.7)*treble*2).
C18_SameRotationModel ==
    coherenceStage = "analysis"
        => LET r == [XW |-> currentParams["rot4dXW"], YW |-> currentParams["rot4dYW"],
                     ZW |-> currentParams["rot4dZW"]]
           IN /\ unifiedRotation = r
              /\ visualizerRotation = r

\* C19: a parameter passed to window.updateParameter by the last updateCycle
\* differs by more than the threshold from the value passed for it before (a
\* parameter never passed before is free to be passed).
C19_ForwardedOnlyBeyondEpsilon ==
    \A p \in forwardedNow :
        prevSink[p].sent
            => Abs(sinkValue[p].value - prevSink[p].value) > CacheThreshold

\* C20: every value passed to the visualizer for one of its parameters lies in the
\* documented range of that parameter, and geometry is a whole number.
C20_ForwardedInRange ==
    \A p \in VisualizerParams :
        sinkValue[p].sent
            => /\ DocumentedRange(p).lo <= sinkValue[p].value
               /\ sinkValue[p].value <= DocumentedRange(p).hi
               /\ (p = "geometry" => sinkValue[p].value % ParamScale = 0)

(***************************************************************************)
(* Specification of a replay: one recording of frames played through two   *)
(* fresh pipelines (a director and the integration reading it), the second *)
(* replay started at a later wall-clock time.  Each frame reaches both     *)
(* pipelines with the same energy and at the same distance from the start  *)
(* of its replay.                                                          *)
(***************************************************************************)
Instances == {1, 2}

\* How long after the first replay the second one may start, in milliseconds.
ReplayDelays == {0, 350}

ReplayPeriods == {200}

\* A director and an integration as their constructors leave them; start is
\* Date.now() when the replay begins.
FreshPipeline(start) ==
    [start |-> start,
     energyHistory |-> <<>>,
     beatHistory |-> <<>>,
     lastBeatTime |-> 0,
     currentBPM |-> InitialBPM * BpmScale,
     coherence |-> [beatPhase |-> 0, tempo |-> InitialBPM * BpmScale],
     accepted |-> <<>>]

\* Frame number k, of energy e, through one pipeline at wall-clock time t:
\* processAudio (detectBeat, calculateTempo), then the integration's updateCycle
\* (getCurrentAnalysis, which runs detectBeat again, and updateCoherenceState,
\* which reads getBeatInfo).
PlayFrame(p, e, k, t) ==
    LET d1 == DetectBeat(p.energyHistory, p.beatHistory, p.lastBeatTime, t, e)
        c == CalculateTempo(d1.beatHistory, p.currentBPM)
        d2 == DetectBeat(d1.energyHistory, d1.beatHistory, d1.lastBeatTime, t, e)
        hits == (IF d1.beat.detected THEN <<k>> ELSE <<>>)
                  \o (IF d2.beat.detected THEN <<k>> ELSE <<>>)
    IN [p EXCEPT !.energyHistory = d2.energyHistory,
                 !.beatHistory = d2.beatHistory,
                 !.lastBeatTime = d2.lastBeatTime,
                 !.currentBPM = c.currentBPM,
                 !.coherence = [beatPhase |-> BeatPhase(t - d2.lastBeatTime, c.currentBPM),
                                tempo |-> c.currentBPM],
                 !.accepted = @ \o hits]

\* The next frame of the recording reaches both pipelines.
ReplayFrame ==
    /\ recorded < MaxReplayFrames
    /\ \E e \in EnergyLevels :
         pipelines' = [i \in Instances |->
                         PlayFrame(pipelines[i], e, recorded + 1,
                                   pipelines[i].start + (recorded + 1) * framePeriod)]
    /\ recorded' = recorded + 1
    /\ UNCHANGED <<directorVars, generatorVars, telegraphVars, latencyVars, setupVars,
                   integrationVars, analyzerVars, generators,
                   sinkVars, renderVars, feedbackVars, scoreVars>>

InitReplay ==
    /\ InitClock
    /\ InitTracker
    /\ InitGeneratorState
    /\ InitTelegraphState
    /\ InitSetupState
    /\ InitIntegrationState
    /\ InitLatencyState
    /\ script = "free"
    /\ beatInterval = 0
    /\ framePeriod \in ReplayPeriods
    /\ loops = {}
    /\ \E delay \in ReplayDelays :
         pipelines = [i \in Instances |->
                        FreshPipeline(IF i = 1 THEN StartTime ELSE StartTime + delay)]
    /\ recorded = 0
    /\ InitAnalyzerState
    /\ generators = <<>>
    /\ InitSinkState
    /\ InitRenderState
    /\ InitFeedbackState
    /\ InitScoreState

NextReplay == ReplayFrame

SpecReplay == InitReplay /\ [][NextReplay]_vars

\* C21: after every frame of the same recording, the two pipelines hold the same
\* coherence state (beat phase, tempo) and have accepted beats on the same frames,
\* whatever the wall-clock time at which each replay started.
C21_ReplayDeterministic ==
    recorded > 0
        => /\ pipelines[1].coherence = pipelines[2].coherence
           /\ pipelines[1].accepted = pipelines[2].accepted

(***************************************************************************)
(* Specification of the band analyzers: a spectrum is acquired, then the   *)
(* director and the generator each analyse it                              *)
(***************************************************************************)
\* this.analyser.getFloatFrequencyData(this.frequencyData)
AcquireSpectrum ==
    /\ analyzerStage = "acquire"
    /\ spectrum' \in Spectra(spectrum.sampleRate)
    /\ analyzerStage' = "director"
    /\ UNCHANGED <<directorBands, generatorBands, coherenceState, unifiedMath, replayVars>>
    /\ UNCHANGED <<directorVars, generatorVars, telegraphVars, latencyVars, setupVars,
                   integrationVars, generators,
                   sinkVars, renderVars, feedbackVars, scoreVars>>

\* The director's processAudio analyses the spectrum.
DirectorAnalysis ==
    /\ analyzerStage = "director"
    /\ directorBands' = AnalyzeFrequencyBands(spectrum)
    /\ analyzerStage' = "generator"
    /\ UNCHANGED <<spectrum, generatorBands, coherenceState, unifiedMath, replayVars>>
    /\ UNCHANGED <<directorVars, generatorVars, telegraphVars, latencyVars, setupVars,
                   integrationVars, generators,
                   sinkVars, renderVars, feedbackVars, scoreVars>>

\* The generator's analyzeAudio copies the spectrum and analyses it.
GeneratorAnalysis ==
    /\ analyzerStage = "generator"
    /\ generatorBands' = AnalyzeFrequencyBandsGenerator(spectrum)
    /\ analyzerStage' = "integration"
    /\ UNCHANGED <<spectrum, directorBands, coherenceState, unifiedMath, replayVars>>
    /\ UNCHANGED <<directorVars, generatorVars, telegraphVars, latencyVars, setupVars,
                   integrationVars, generators,
                   sinkVars, renderVars, feedbackVars, scoreVars>>

\* The integration's updateCycle: getCurrentAnalysis, updateCoherenceState
IntegrationUpdate ==
    /\ analyzerStage = "integration"
    /\ coherenceState' = UpdateCoherenceState(CurrentAnalysis(spectrum))
    /\ analyzerStage' = "unified"
    /\ UNCHANGED <<spectrum, directorBands, generatorBands, unifiedMath, replayVars>>
    /\ UNCHANGED <<directorVars, generatorVars, telegraphVars, latencyVars, setupVars,
                   integrationVars, generators,
                   sinkVars, renderVars, feedbackVars, scoreVars>>

\* The coherent visual system's updateCycle: updateUnifiedMathFromAudio
UnifiedUpdate ==
    /\ analyzerStage = "unified"
    /\ unifiedMath' = UpdateUnifiedMath(CurrentAnalysis(spectrum))
    /\ analyzerStage' = "acquire"
    /\ UNCHANGED <<spectrum, directorBands, generatorBands, coherenceState, replayVars>>
    /\ UNCHANGED <<directorVars, generatorVars, telegraphVars, latencyVars, setupVars,
                   integrationVars, generators,
                   sinkVars, renderVars, feedbackVars, scoreVars>>

InitAnalyzer ==
    /\ InitClock
    /\ InitTracker
    /\ InitGeneratorState
    /\ InitTelegraphState
    /\ InitSetupState
    /\ InitIntegrationState
    /\ InitLatencyState
    /\ InitReplayState
    /\ \E rate \in SampleRates : InitAnalyzerAt(rate)
    /\ generators = <<>>
    /\ InitSinkState
    /\ InitRenderState
    /\ InitFeedbackState
    /\ InitScoreState
    /\ script = "free"
    /\ beatInterval = 0
    /\ framePeriod \in GenPeriods
    /\ loops = {}

NextAnalyzer ==
    \/ AcquireSpectrum
    \/ DirectorAnalysis
    \/ GeneratorAnalysis
    \/ IntegrationUpdate
    \/ UnifiedUpdate

SpecAnalyzer == InitAnalyzer /\ [][NextAnalyzer]_vars

\* C22: every band returned by either analyzer has a finite energy and peak, and
\* every band of the generator a finite dominance, for every spectrum (silent
\* ones included) and every sample rate.
C22_BandsFinite ==
    /\ \A band \in DirectorBandNames :
         IsFinite(directorBands[band].energy) /\ IsFinite(directorBands[band].peak)
    /\ \A band \in Bands :
         /\ IsFinite(generatorBands[band].energy)
         /\ IsFinite(generatorBands[band].peak)
         /\ IsFinite(generatorBands[band].dominance)

C30_TotalIsSumOfBands ==
    /\ coherenceState.energyLevels.total
          = JsAdd(JsAdd(coherenceState.energyLevels.bass,
                        coherenceState.energyLevels.mid),
                  coherenceState.energyLevels.treble)
    /\ unifiedMath.energy.total
          = JsAdd(JsAdd(unifiedMath.energy.bass, unifiedMath.energy.mid),
                  unifiedMath.energy.treble)

(***************************************************************************)
(* Specification of the run statistics: the generator's frames, and the    *)
(* game calling updateRunStats between them                                *)
(***************************************************************************)
\* The values of adaptivesDifficulty a caller of updateRunStats may pass,
\* fixed-point.
RunStatsDifficulties == {200, 1000, 5000}

\* updateRunStats(stats): Object.assign(this.runStats, stats), stats carrying
\* adaptivesDifficulty
UpdateRunStats ==
    /\ pc = "director"
    /\ \E d \in RunStatsDifficulties :
         /\ d # adaptivesDifficulty
         /\ adaptivesDifficulty' = d
    /\ UNCHANGED <<segmentQueue, analysisHistory, eventsSpawned, recentHits, nextId,
                   spawnedLog, analysisLog>>
    /\ UNCHANGED <<directorVars, telegraphVars, latencyVars, setupVars,
                   integrationVars, auxVars>>

InitRunStats ==
    /\ InitClock
    /\ InitTracker
    /\ InitTelegraphState
    /\ InitSetupState
    /\ InitIntegrationState
    /\ InitAuxState
    /\ InitLatencyState
    /\ segmentQueue = <<>>
    /\ analysisHistory = <<>>
    /\ adaptivesDifficulty = DiffScale
    /\ eventsSpawned = 0
    /\ recentHits \in HitSamples
    /\ nextId = 0
    /\ spawnedLog = <<>>
    /\ analysisLog = <<>>
    /\ script = "metronome"
    /\ beatInterval \in SteadyIntervals
    /\ framePeriod \in GenPeriods
    /\ loops = {"generator", "events"}

NextRunStats ==
    \/ NextGen
    \/ UpdateRunStats

SpecRunStats == InitRunStats /\ [][NextRunStats]_vars

\* C24: the adaptive difficulty multiplier lies in [0.5, 3.0] in every state, after
\* any generator ticks and any updateRunStats calls.
C24_DifficultyInRange ==
    /\ MinDifficulty <= adaptivesDifficulty
    /\ adaptivesDifficulty <= MaxDifficulty

(***************************************************************************)
(* Specification of the spawn thresholds: two generators whose adaptive    *)
(* difficulty multipliers differ read the same band energies               *)
(***************************************************************************)
\* The band energies of one analysis, in hundredths.
BandEnergyLevels == {5, 12, 28, 60}

\* The part of generateEventsFromAudio that selects the bands to spawn for, in a
\* generator whose multiplier is difficulty.
BandsOverThreshold(energies, difficulty) ==
    {band \in Bands : OverBandThreshold(band, energies[band], difficulty)}

\* Both generators run generateEventsFromAudio on the same analysis.
GenerateForBoth ==
    /\ \E energies \in [Bands -> BandEnergyLevels] :
         generators' = [i \in Instances |->
                          LET d == generators[i].difficulty
                          IN [difficulty |-> d,
                              thresholds |-> [band \in Bands |->
                                                GetThresholdForBand(band, d)],
                              spawned |-> BandsOverThreshold(energies, d),
                              ticks |-> 1]]
    /\ UNCHANGED <<directorVars, generatorVars, telegraphVars, latencyVars, setupVars,
                   integrationVars, replayVars, analyzerVars,
                   sinkVars, renderVars, feedbackVars, scoreVars>>

InitThreshold ==
    /\ InitClock
    /\ InitTracker
    /\ InitGeneratorState
    /\ InitTelegraphState
    /\ InitSetupState
    /\ InitIntegrationState
    /\ InitLatencyState
    /\ InitReplayState
    /\ InitAnalyzerState
    /\ InitSinkState
    /\ InitRenderState
    /\ InitFeedbackState
    /\ InitScoreState
    /\ script = "free"
    /\ beatInterval = 0
    /\ framePeriod \in GenPeriods
    /\ loops = {}
    /\ \E lower \in DifficultySamples, higher \in DifficultySamples :
         /\ lower < higher
         /\ generators = [i \in Instances |->
                            [difficulty |-> IF i = 1 THEN lower ELSE higher,
                             thresholds |-> [band \in Bands |-> 0],
                             spawned |-> {},
                             ticks |-> 0]]

NextThreshold == GenerateForBoth

SpecThreshold == InitThreshold /\ [][NextThreshold]_vars

\* C25: of two generators that have read the same analysis, the one with the
\* larger multiplier has, for each band, a threshold no higher than the other's,
\* and spawns for every band the other spawns for.
C25_HarderSpawnsMore ==
    (generators[1].ticks > 0 /\ generators[1].difficulty < generators[2].difficulty)
        => /\ \A band \in Bands :
                generators[2].thresholds[band] <= generators[1].thresholds[band]
           /\ generators[1].spawned \subseteq generators[2].spawned

\* C26: every queued geometry_spawn event has a spawnTime at least 3000 ms after
\* the time it was created and queued, for every band and tempo.
C26_SpawnAfterWarning ==
    \A i \in 1..Len(segmentQueue) :
        segmentQueue[i].type = "geometry_spawn"
            => segmentQueue[i].spawnTime - segmentQueue[i].createdAt >= MinTelegraphMs

\* C27: the stored currentBPM changes only in a tick of the director that accepts
\* a beat, and then to exactly 0.8 * old + 0.2 * (60000 / mean beat interval).
C27_TempoOnlyOnBeat ==
    [][currentBPM' # currentBPM
          => /\ pc = "director"
             /\ lastBeat'.detected
             /\ currentBPM' = Blend(currentBPM, NewBPM(beatHistory'))]_vars

\* C28: a loop that only reads the analysis (getCurrentAnalysis, getBeatInfo) leaves
\* energyHistory, beatHistory and lastBeatTime as they are, and when a frame ends
\* the energy history has received one sample for every frame processed.
C28_ReadersDoNotAdvance ==
    [][/\ pc = "reader" => UNCHANGED <<energyHistory, beatHistory, lastBeatTime>>
       /\ pc' = "director" => Len(energyLog') = frames']_vars

\* C29: the master beat phase stored by a coherence loop lies in [0, 2*pi) in
\* every state, also before the first accepted beat and when no beat has arrived
\* for longer than a beat interval.
C29_BeatPhaseWithinPeriod ==
    /\ 0 <= beatPhase
    /\ beatPhase < TwoPiMilli

(***************************************************************************)
(* The adaptation tick against the drift of two windows                    *)
(***************************************************************************)
\* The mean of a window of timing errors, fixed-point.
WindowMean(w) == (SumSeq(w) * OffsetScale) \div Len(w)

\* The errors recorded immediately before the most recent window of up to 50.
PriorWindow(m) ==
    SubSeq(m, Max(1, Len(m) - 2 * WindowSize + 1), Len(m) - Min(WindowSize, Len(m)))

\* C31: an adaptation tick that finds at least 10 measurements takes trend =
\* mean(most recent window of up to 50) - mean(the window before it); it changes
\* adaptiveOffset only if |trend| > 5 ms, then by exactly -trend * 0.1, and leaves
\* it alone when there is no window before the most recent one.
C31_TrendOfTwoWindows ==
    [][(/\ adaptTicks' = adaptTicks + 1
        /\ Len(recentMeasurements) >= 10)
       => LET recent == LastN(recentMeasurements, WindowSize)
              prior == PriorWindow(recentMeasurements)
              trend == WindowMean(recent) - WindowMean(prior)
          IN IF prior = <<>>
             THEN adaptiveOffset' = adaptiveOffset
             ELSE adaptiveOffset' = IF Abs(trend) > 5 * OffsetScale
                                    THEN adaptiveOffset + Adjustment(trend)
                                    ELSE adaptiveOffset]_vars

(***************************************************************************)
(* Specification of the parameter sink: the integration loop and the       *)
(* integration's public methods that also call window.updateParameter      *)
(***************************************************************************)
MaxSinkCalls == 2

\* pattern[beatIndex % pattern.length]: the entries 0 and 1 of the 'simple' pattern
PatternIntensities == {0, ParamScale}

\* level of scaleParametersForLevel(level), performance left at its default 0.5
Levels == {1, 9}

\* scheduleParameterUpdate(param, value, delay): the sampled calls
ScheduledUpdates == {[param |-> "hue", value |-> ParamScale \div 4]}

\* window.updateParameter(param, value) for every entry of writes
WriteSink(sink, writes) ==
    [p \in DOMAIN sink |->
       IF p \in DOMAIN writes THEN [sent |-> TRUE, value |-> writes[p]] ELSE sink[p]]

\* rhythmParams of applyRhythmicPatternToVIB34D
RhythmParams(intensity) ==
    [p \in {"chaos", "morphFactor", "intensity"} |->
       CASE p = "chaos" -> intensity \div 2
         [] p = "morphFactor" -> (3 * ParamScale) \div 10 + (intensity * 4) \div 10
         [] p = "intensity" -> ParamScale \div 2 + (intensity * 3) \div 10]

\* progressionScaling of scaleParametersForLevel, performanceBonus = 0
ProgressionScaling(level) ==
    LET complexity == Min(2 * ParamScale, ParamScale + (level * ParamScale) \div 10)
    IN [p \in {"geometry", "gridDensity", "chaos", "speed", "intensity"} |->
          CASE p = "geometry" -> Min(8, level \div 3) * ParamScale
            [] p = "gridDensity" -> Min(100 * ParamScale, 20 * ParamScale + complexity * 40)
            [] p = "chaos" -> Min((8 * ParamScale) \div 10, (level - 1) * (ParamScale \div 50))
            [] p = "speed" ->
                 Min(3 * ParamScale, (8 * ParamScale) \div 10 + (complexity * 4) \div 10)
            [] p = "intensity" ->
                 Min(ParamScale, (4 * ParamScale) \div 10 + (complexity * 3) \div 10)]

\* burstEffects.energy of triggerIntensityBurst, the entries that are modelled
BurstEffects(feedback) ==
    [p \in FeedbackParams |->
       CASE p = "lineThickness" -> Min(5 * ParamScale, (feedback[p] * 25) \div 10)
         [] p = "strokeIntensity" -> ParamScale]

\* { ...this.currentVisualFeedback }
OriginalState(current) == [p \in FeedbackParams |-> current[p]]

\* defaults of resetToDefaults
ResetDefaults == [p \in VisualizerParams |-> DefaultParams[p]]

\* What a public method of the integration leaves alone, the sink apart.  The game
\* calls the methods, and the timers run, between two animation frames: of the
\* frame's callbacks only updateCycle reads or writes what they write.
SinkFrame ==
    /\ coherenceStage = "analysis"
    /\ UNCHANGED <<beatPhase, beatsAtPhase, audioData, coherenceStage, prevSink,
                   forwardedNow, unifiedRotation, visualizerRotation>>
    /\ UNCHANGED <<directorVars, generatorVars, telegraphVars, latencyVars, setupVars>>
    /\ UNCHANGED <<replayVars, analyzerVars, generators, scoreVars, renderVars, feedbackVars>>

\* applyRhythmicPatternToVIB34D(pattern, beatIndex)
ApplyRhythmicPatternToVIB34D ==
    /\ sinkCalls < MaxSinkCalls
    /\ \E intensity \in PatternIntensities :
         sinkValue' = WriteSink(sinkValue, RhythmParams(intensity))
    /\ sinkCalls' = sinkCalls + 1
    /\ UNCHANGED <<currentParams, paramTimers>>
    /\ SinkFrame

\* scaleParametersForLevel(level)
ScaleParametersForLevel ==
    /\ sinkCalls < MaxSinkCalls
    /\ \E level \in Levels :
         sinkValue' = WriteSink(sinkValue, ProgressionScaling(level))
    /\ sinkCalls' = sinkCalls + 1
    /\ UNCHANGED <<currentParams, paramTimers>>
    /\ SinkFrame

\* scheduleParameterUpdate(param, value, delay): setTimeout of one write
ScheduleParameterUpdate ==
    /\ sinkCalls < MaxSinkCalls
    /\ \E u \in ScheduledUpdates :
         paramTimers' = paramTimers \cup {[q \in {u.param} |-> u.value]}
    /\ sinkCalls' = sinkCalls + 1
    /\ UNCHANGED <<currentParams, sinkValue>>
    /\ SinkFrame

\* triggerIntensityBurst(duration): the burst now, setTimeout of the restore
TriggerIntensityBurst ==
    /\ sinkCalls < MaxSinkCalls
    /\ sinkValue' = WriteSink(sinkValue, BurstEffects(currentParams))
    /\ paramTimers' = paramTimers \cup {OriginalState(currentParams)}
    /\ sinkCalls' = sinkCalls + 1
    /\ UNCHANGED currentParams
    /\ SinkFrame

\* resetToDefaults()
ResetToDefaults ==
    /\ sinkCalls < MaxSinkCalls
    /\ sinkValue' = WriteSink(sinkValue, ResetDefaults)
    /\ currentParams' = [p \in DOMAIN currentParams |->
                           IF p \in DOMAIN ResetDefaults THEN ResetDefaults[p]
                           ELSE currentParams[p]]
    /\ sinkCalls' = sinkCalls + 1
    /\ UNCHANGED paramTimers
    /\ SinkFrame

\* A setTimeout callback of scheduleParameterUpdate or triggerIntensityBurst runs.
ParamTimerFires ==
    /\ \E writes \in paramTimers :
         /\ sinkValue' = WriteSink(sinkValue, writes)
         /\ paramTimers' = paramTimers \ {writes}
    /\ UNCHANGED <<currentParams, sinkCalls>>
    /\ SinkFrame

\* The analyses of this specification: silence on the beat, a full mix 125 ms later.
SinkFrames ==
    {f \in AudioFrames : \/ f.total = 0 /\ f.timeSince = 0
                         \/ f.total = ParamScale /\ f.timeSince = 125}

\* The director has analysed a new frame.
AnalyseSinkFrame ==
    /\ coherenceStage = "analysis"
    /\ audioData' \in SinkFrames
    /\ coherenceStage' = "integration"
    /\ UNCHANGED <<beatPhase, beatsAtPhase, currentParams, sinkValue, prevSink,
                   forwardedNow, unifiedRotation, visualizerRotation>>
    /\ UNCHANGED <<directorVars, generatorVars, telegraphVars, latencyVars, setupVars,
                   auxVars>>

InitSink == InitCoherence

NextSink ==
    \/ AnalyseSinkFrame
    \/ UpdateCycle
    \/ UpdateUnifiedMathFromAudio
    \/ UpdateVisualizerFromAudio
    \/ ApplyRhythmicPatternToVIB34D
    \/ ScaleParametersForLevel
    \/ ScheduleParameterUpdate
    \/ TriggerIntensityBurst
    \/ ResetToDefaults
    \/ ParamTimerFires

SpecSink == InitSink /\ [][NextSink]_vars

\* C32: for every visualizer and visual feedback parameter that has been passed
\* to window.updateParameter, the integration's record (currentParams,
\* currentVisualFeedback) equals the value last passed, whatever the interleaving
\* of the loop with the public methods and their timers.
C32_RecordMatchesSink ==
    \A p \in VisualizerParams \cup FeedbackParams :
        sinkValue[p].sent => currentParams[p] = sinkValue[p].value

(***************************************************************************)
(* Specification of the spawn queue over time without end: the generator's *)
(* loop and processAudioEvents frame after frame, spawn times being        *)
(* JavaScript numbers as the generator computes them                       *)
(***************************************************************************)
MaxQueueFrames == 2

\* this.audioDirector.sampleRate: a property that neither director class defines;
\* undefined, which division turns into NaN
AudioDirectorSampleRate == NaN

\* a / b, a and b numbers that are not infinite
JsQuotient(a, b) ==
    IF IsFinite(a) /\ IsFinite(b)
    THEN (IF b.v = 0 THEN NaN ELSE Num(a.v \div b.v))
    ELSE NaN

\* a <= b
JsLessEq(a, b) == IsFinite(a) /\ IsFinite(b) /\ a.v <= b.v

\* The frames of this specification: what the bands, the energy level and the
\* time-domain buffer hold.  steps are the sample indices i at which
\* |timeData[i] - timeData[i-1]| exceeds 0.3, with that difference in hundredths.
QuietPassage ==
    [bands |-> [b \in Bands |-> 0], level |-> 40, steps |-> <<>>]
KickFrame ==
    [bands |-> [b \in Bands |-> IF b = "bass" THEN 50 ELSE 0], level |-> 40,
     steps |-> <<[index |-> 441, strength |-> 90]>>]
HushedFrame ==
    [bands |-> [b \in Bands |-> 0], level |-> 0, steps |-> <<>>]

\* The frames the audio may bring: anything while the passage lasts, then a quiet
\* passage that yields no event.
QueueProfiles ==
    IF frames <= MaxQueueFrames THEN {QuietPassage, KickFrame, HushedFrame}
    ELSE {QuietPassage}

\* From this time on every finite spawn time in the queue has passed.
QueueHorizon == StartTime + (MaxQueueFrames + 1) * 250 + 2000

\* detectOnsets: time = Date.now() + (i * 1000 / this.audioDirector.sampleRate)
DetectOnsets(steps, t) ==
    [i \in 1..Len(steps) |->
       [time |-> JsAdd(Num(t), JsQuotient(Num(steps[i].index * 1000),
                                          AudioDirectorSampleRate)),
        strength |-> steps[i].strength]]

\* The events of generateEventsFromAudio before they are scaled and queued,
\* spawnTime as a JavaScript number.
EventsFromAudio(a, trend, difficulty, bpm, t) ==
    LET over == SelectSeq(BandOrder,
                          LAMBDA b : OverBandThreshold(b, a.bands[b], difficulty))
        bandEvents == [i \in 1..Len(over) |->
                         LET e == CreateEventFromBand(over[i], a.bands[over[i]], bpm,
                                                      difficulty, t)
                         IN [e EXCEPT !.spawnTime = Num(e.spawnTime)]]
        onsets == DetectOnsets(a.steps, t)
        strong == SelectSeq(onsets, LAMBDA o : o.strength > StrongOnset)
        beats == [i \in 1..Len(strong) |->
                    SpecialEvent("beat_event", SelectQuadrantForBeat, strong[i].time, t)]
        buildup == IF trend = "building" /\ a.level > BuildupLevel
                   THEN <<SpecialEvent("intensity_buildup", "all",
                                       Num(t + BuildupDelayMs), t)>>
                   ELSE <<>>
        silence == IF a.level < SilenceLevel
                   THEN <<SpecialEvent("silence_event", "all",
                                       Num(t + SilenceDelayMs), t)>>
                   ELSE <<>>
    IN bandEvents \o beats \o buildup \o silence

\* The arrangements of the sequence s.
Arrangements(s) ==
    {[i \in 1..Len(s) |-> s[p[i]]] :
        p \in {q \in [1..Len(s) -> 1..Len(s)] :
                 \A i, j \in 1..Len(s) : q[i] = q[j] => i = j}}

\* this.segmentQueue.sort((a, b) => a.spawnTime - b.spawnTime): the queues it may
\* leave.  A difference with NaN is NaN, which sort takes for "equal"; when that
\* makes the comparison inconsistent the order is the implementation's choice.
SortedQueues(queue) ==
    LET finite == SelectSeq(queue, LAMBDA e : IsFinite(e.spawnTime))
        plain == [i \in 1..Len(queue) |->
                    [queue[i] EXCEPT !.spawnTime = queue[i].spawnTime.v]]
        sorted == SortBySpawnTime(plain)
    IN IF Len(finite) = Len(queue)
       THEN {[i \in 1..Len(sorted) |-> [sorted[i] EXCEPT !.spawnTime = Num(@)]]}
       ELSE IF \A i, j \in 1..Len(finite) : finite[i].spawnTime = finite[j].spawnTime
            THEN {queue}
            ELSE Arrangements(queue)

\* The generator's analyzeAudio on one frame of this specification
AnalyzeAudioFrame ==
    /\ pc = "generator"
    /\ \E a \in QueueProfiles :
         LET analysis == [timestamp |-> now, energy |-> a.level]
             events == EventsFromAudio(a, AnalyzeDynamics(analysisHistory),
                                       adaptivesDifficulty, currentBPM, now)
             d == AdaptDifficulty(adaptivesDifficulty, recentHits)
             scaled == [i \in 1..Len(events) |->
                          [ScaleEvent(events[i], d) EXCEPT !.id = nextId + i]]
         IN /\ analysisHistory' = PushCapped(analysisHistory, analysis, AnalysisHistoryCap)
            /\ analysisLog' = IF frames <= MaxQueueFrames
                              THEN Append(analysisLog, analysis) ELSE analysisLog
            /\ segmentQueue' \in SortedQueues(segmentQueue \o scaled)
            /\ adaptivesDifficulty' = d
            /\ nextId' = nextId + Len(events)
    /\ pc' = NextPc("generator")
    /\ UNCHANGED <<now, framePeriod, script, beatInterval, loops, frames>>
    /\ UNCHANGED <<eventsSpawned, recentHits, spawnedLog>>
    /\ UNCHANGED <<trackerVars, telegraphVars, latencyVars>>
    /\ UNCHANGED <<setupVars, integrationVars, auxVars>>

\* processAudioEvents: getNextEvent returns the head if its spawnTime <= now
ProcessQueueEvents ==
    /\ pc = "events"
    /\ IF segmentQueue # <<>> /\ JsLessEq(Head(segmentQueue).spawnTime, Num(now))
       THEN /\ segmentQueue' = Tail(segmentQueue)
            /\ eventsSpawned' = eventsSpawned + 1
            /\ spawnedLog' = Append(spawnedLog, [event |-> Head(segmentQueue), at |-> now])
       ELSE UNCHANGED <<segmentQueue, eventsSpawned, spawnedLog>>
    /\ pc' = NextPc("events")
    /\ UNCHANGED <<now, framePeriod, script, beatInterval, loops, frames>>
    /\ UNCHANGED <<analysisHistory, adaptivesDifficulty, recentHits, nextId, analysisLog>>
    /\ UNCHANGED <<trackerVars, telegraphVars, latencyVars>>
    /\ UNCHANGED <<setupVars, integrationVars, auxVars>>

\* The next animation frame begins.  Past the horizon the clock and the frame
\* count are no longer followed: no comparison of the queue depends on them.
NextFrame ==
    /\ pc = "director"
    /\ now' = Min(now + framePeriod, QueueHorizon)
    /\ frames' = Min(frames + 1, MaxQueueFrames + 1)
    /\ pc' = NextPc("director")
    /\ UNCHANGED <<framePeriod, script, beatInterval, loops>>
    /\ UNCHANGED <<trackerVars, generatorVars, telegraphVars, latencyVars>>
    /\ UNCHANGED <<setupVars, integrationVars, auxVars>>

InitQueue ==
    /\ InitClock
    /\ InitTracker
    /\ InitTelegraphState
    /\ InitSetupState
    /\ InitIntegrationState
    /\ InitAuxState
    /\ InitLatencyState
    /\ segmentQueue = <<>>
    /\ analysisHistory = <<>>
    /\ adaptivesDifficulty = DiffScale
    /\ eventsSpawned = 0
    /\ recentHits = <<0, 0>>
    /\ nextId = 0
    /\ spawnedLog = <<>>
    /\ analysisLog = <<>>
    /\ script = "free"
    /\ beatInterval = 0
    /\ framePeriod = 250
    /\ loops = {"generator", "events"}

NextQueue ==
    \/ NextFrame
    \/ AnalyzeAudioFrame
    \/ ProcessQueueEvents

\* requestAnimationFrame runs the next registered callback.  Every step of
\* NextQueue is such a step, and one is always possible.
CallbackRuns == pc' = NextPc(pc)

\* Animation frames keep occurring.
SpecQueue == InitQueue /\ [][NextQueue]_vars /\ WF_pc(CallbackRuns)

\* C33: every event placed in segmentQueue is eventually returned by getNextEvent
\* when frames keep occurring: none stays in the queue forever.
C33_QueuedEventuallyReturned ==
    \A id \in 1..(3 * (MaxQueueFrames + 1)) :
        (\E i \in 1..Len(segmentQueue) : segmentQueue[i].id = id)
            ~> (\E j \in 1..Len(spawnedLog) : spawnedLog[j].event.id = id)

(***************************************************************************)
(* The quadrant tables of the consumers of an event                        *)
(***************************************************************************)
\* AudioReactiveParticleSystem: this.quadrants, by key, with the name of each
ParticleQuadrants ==
    [q \in {"0", "1", "2", "3"} |->
       CASE q = "0" -> "melody" [] q = "1" -> "harmony"
         [] q = "2" -> "rhythm" [] q = "3" -> "bass"]

\* AudioReactiveParticleSystem: the keys of this.telegraphState
TelegraphStateKeys == {"0", "1", "2", "3"}

\* VisualTelegraphSystem.getQuadrantBounds: bounds[quadrant], x and y in half
\* canvases; <<>> stands for undefined
GetQuadrantBounds(quadrant) ==
    CASE quadrant = "0" -> <<[x |-> 0, y |-> 0]>>
      [] quadrant = "1" -> <<[x |-> 1, y |-> 0]>>
      [] quadrant = "2" -> <<[x |-> 0, y |-> 1]>>
      [] quadrant = "3" -> <<[x |-> 1, y |-> 1]>>
      [] OTHER -> <<>>

\* HapticAudioVisualIntegration.getQuadrantCenter: centers[quadrant] || centers[0],
\* x and y in quarter canvases
GetQuadrantCenter(quadrant) ==
    CASE quadrant = "1" -> <<[x |-> 3, y |-> 1]>>
      [] quadrant = "2" -> <<[x |-> 1, y |-> 3]>>
      [] quadrant = "3" -> <<[x |-> 3, y |-> 3]>>
      [] OTHER -> <<[x |-> 1, y |-> 1]>>

\* Every consumer has a region for the quadrant.
QuadrantResolves(quadrant) ==
    /\ quadrant \in DOMAIN ParticleQuadrants
    /\ quadrant \in TelegraphStateKeys
    /\ GetQuadrantBounds(quadrant) # <<>>
    /\ GetQuadrantCenter(quadrant) # <<>>

\* C34: the quadrant of every event the generator has queued, and of every event
\* handed to the game, is known to the particle system (quadrants,
\* telegraphState), to getQuadrantBounds and to getQuadrantCenter.
C34_QuadrantsResolve ==
    /\ \A i \in 1..Len(segmentQueue) : QuadrantResolves(segmentQueue[i].quadrant)
    /\ \A j \in 1..Len(spawnedLog) : QuadrantResolves(spawnedLog[j].event.quadrant)

(***************************************************************************)
(* Specification of the danger warnings: the warning calls and the two     *)
(* render loops that can turn a warning into danger particles              *)
(***************************************************************************)
MaxDangerFrames == 31

\* this.frameInterval = 1000 / this.targetFPS, in thirds of a millisecond
FrameInterval == (1000 * ThirdsPerMs) \div targetFPS

\* Milliseconds between two animation frames: a 50 Hz display, a slow device.
DangerPeriods == {20, 250}

\* updateTelegraphStates: every active quadrant is counted down by frameInterval;
\* one that reaches 0 is switched off and its danger particles are spawned.
UpdateTelegraphStates(state) ==
    LET left(q) == state[q].timeRemaining - FrameInterval
    IN [state |-> [q \in DOMAIN state |->
                     IF state[q].active
                     THEN [active |-> left(q) > 0, timeRemaining |-> left(q)]
                     ELSE state[q]],
        spawned |-> SelectSeq(<<0, 1, 2, 3>>,
                              LAMBDA q : state[q].active /\ left(q) <= 0)]

\* The render loop of VisualTelegraphSystem in the next animation frame: update()
\* completes and removes the telegraphs whose time is over.
RenderTelegraphs ==
    /\ particleFrames = frames
    /\ frames < MaxDangerFrames
    /\ LET t == now + framePeriod
       IN /\ now' = t
          /\ activeTelegraphs' = SelectSeq(activeTelegraphs, LAMBDA g : g.endTime - t > 0)
          /\ dangerSpawned' = dangerSpawned \o CompletedDangers(activeTelegraphs, t)
    /\ frames' = frames + 1
    /\ UNCHANGED <<framePeriod, script, beatInterval, loops, pc>>
    /\ UNCHANGED <<telegraphCount, telegraphState, syncBuffer>>
    /\ UNCHANGED <<trackerVars, generatorVars, latencyVars>>
    /\ UNCHANGED <<setupVars, integrationVars, auxVars>>

\* The render loop of AudioReactiveParticleSystem in the same animation frame:
\* update() runs if a frame interval has passed since the last one.
RenderParticles ==
    /\ particleFrames < frames
    /\ particleFrames' = particleFrames + 1
    /\ IF (now - lastFrameTime) * ThirdsPerMs >= FrameInterval
       THEN LET u == UpdateTelegraphStates(telegraphState)
            IN /\ telegraphState' = u.state
               /\ dangerSpawned' = dangerSpawned \o u.spawned
               /\ lastFrameTime' = now
       ELSE UNCHANGED <<telegraphState, dangerSpawned, lastFrameTime>>
    /\ UNCHANGED <<targetFPS, particlePools, activeParticles>>
    /\ UNCHANGED <<activeTelegraphs, telegraphCount, syncBuffer>>
    /\ UNCHANGED <<directorVars, generatorVars, latencyVars>>
    /\ UNCHANGED <<setupVars, integrationVars>>
    /\ UNCHANGED <<replayVars, analyzerVars, generators, scoreVars, sinkVars, feedbackVars>>

InitDanger ==
    /\ InitClock
    /\ InitTracker
    /\ InitGeneratorState
    /\ InitTelegraphState
    /\ InitSetupState
    /\ InitIntegrationState
    /\ InitAuxState
    /\ InitLatencyState
    /\ script = "free"
    /\ beatInterval = 0
    /\ framePeriod \in DangerPeriods
    /\ loops = {}

NextDanger ==
    \/ TriggerDangerWarning
    \/ RenderTelegraphs
    \/ RenderParticles

SpecDanger == InitDanger /\ [][NextDanger]_vars

\* C35: spawnDangerParticles is called once for each danger warning, in the frame
\* in which the warning's time is over: in every step the quadrants newly passed
\* to spawnDangerParticles are those of the danger telegraphs that end with it.
C35_OneActivationPerWarning ==
    [][SubSeq(dangerSpawned', Len(dangerSpawned) + 1, Len(dangerSpawned'))
           = CompletedDangers(activeTelegraphs, now')]_vars

(***************************************************************************)
(* Specification of the particle pools: spawning, the update of a frame    *)
(* and setPerformanceLevel                                                 *)
(***************************************************************************)
\* Particles asked for in one spawn call (Math.floor(intensity * 50) and
\* Math.floor(energy * 30) in the program): fewer and more than a pool holds.
SpawnCounts == {1, 4}

\* Updates a spawned particle lives (maxLife / frameInterval in the program).
Lifetimes == {1, 2}

\* The level passed to setPerformanceLevel, in tenths.
PerformanceLevels == {3, 8}

\* ParticlePool.acquire: the first inactive particle if activeCount < maxSize;
\* slot 0 stands for null.
Acquire(p) ==
    LET free == {i \in 1..Len(p.pool) : ~p.pool[i].active}
    IN IF p.activeCount < p.maxSize /\ free # {}
       THEN LET i == CHOOSE f \in free : \A g \in free : f <= g
            IN [pool |-> [p EXCEPT !.pool[i].active = TRUE,
                                   !.activeCount = @ + 1],
                slot |-> i]
       ELSE [pool |-> p, slot |-> 0]

\* ParticlePool.release
Release(p, i) ==
    IF p.pool[i].active
    THEN [p EXCEPT !.pool[i].active = FALSE, !.activeCount = @ - 1]
    ELSE p

\* The loop of a spawn method: count times, acquire from the pool of the type
\* and, unless null came back, set the particle up and push it to the list.
RECURSIVE SpawnParticles(_, _, _, _, _, _)
SpawnParticles(pools, lists, type, key, count, life) ==
    IF count = 0 THEN [pools |-> pools, lists |-> lists]
    ELSE LET a == Acquire(pools[type])
         IN IF a.slot = 0
            THEN SpawnParticles(pools, lists, type, key, count - 1, life)
            ELSE SpawnParticles(
                     [pools EXCEPT ![type] = [a.pool EXCEPT !.pool[a.slot].life = life]],
                     [lists EXCEPT ![key] = Append(@, [type |-> type, slot |-> a.slot])],
                     type, key, count - 1, life)

\* updateParticlesInQuadrant from particle i down to the first: updateParticle
\* takes one update off its life; at 0 it is released and spliced out.
RECURSIVE UpdateParticlesInQuadrant(_, _, _)
UpdateParticlesInQuadrant(pools, particles, i) ==
    IF i = 0 THEN [pools |-> pools, particles |-> particles]
    ELSE LET ref == particles[i]
             aged == [pools EXCEPT ![ref.type].pool[ref.slot].life = @ - 1]
         IN IF aged[ref.type].pool[ref.slot].life <= 0
            THEN UpdateParticlesInQuadrant(
                     [aged EXCEPT ![ref.type] = Release(@, ref.slot)],
                     SubSeq(particles, 1, i - 1) \o SubSeq(particles, i + 1, Len(particles)),
                     i - 1)
            ELSE UpdateParticlesInQuadrant(aged, particles, i - 1)

\* updateAllParticles: the lists from the k-th key on
RECURSIVE UpdateAllParticles(_, _, _)
UpdateAllParticles(pools, lists, k) ==
    IF k > Len(ListOrder) THEN [pools |-> pools, lists |-> lists]
    ELSE LET key == ListOrder[k]
             u == UpdateParticlesInQuadrant(pools, lists[key], Len(lists[key]))
         IN UpdateAllParticles(u.pools, [lists EXCEPT ![key] = u.particles], k + 1)

PoolFrame ==
    /\ UNCHANGED <<lastFrameTime, particleFrames>>
    /\ UNCHANGED <<directorVars, generatorVars, telegraphVars, latencyVars>>
    /\ UNCHANGED <<setupVars, integrationVars>>
    /\ UNCHANGED <<replayVars, analyzerVars, generators, scoreVars, sinkVars, feedbackVars>>

\* AudioReactiveParticleSystem.spawnDangerParticles
SpawnDangerParticles ==
    /\ \E quadrant \in {"0", "3"}, count \in SpawnCounts, life \in Lifetimes :
         LET sp == SpawnParticles(particlePools, activeParticles, "danger",
                                  quadrant, count, life)
         IN /\ particlePools' = sp.pools
            /\ activeParticles' = sp.lists
    /\ UNCHANGED targetFPS
    /\ PoolFrame

\* AudioReactiveParticleSystem.onSuccessfulHit -> spawnSuccessParticles
OnSuccessfulHit ==
    /\ \E count \in SpawnCounts, life \in Lifetimes :
         LET sp == SpawnParticles(particlePools, activeParticles, "success",
                                  "global", count, life)
         IN /\ particlePools' = sp.pools
            /\ activeParticles' = sp.lists
    /\ UNCHANGED targetFPS
    /\ PoolFrame

\* AudioReactiveParticleSystem.update in a frame with no telegraph running and
\* no audio energy: updateAllParticles is the step that changes anything.
UpdateParticleFrame ==
    /\ LET u == UpdateAllParticles(particlePools, activeParticles, 1)
       IN /\ particlePools' = u.pools
          /\ activeParticles' = u.lists
    /\ UNCHANGED targetFPS
    /\ PoolFrame

\* AudioReactiveParticleSystem.setPerformanceLevel
SetPerformanceLevel ==
    /\ \E level \in PerformanceLevels :
         IF level < 5
         THEN /\ targetFPS' = 30
              /\ particlePools' =
                     [t \in PoolTypes |->
                        [particlePools[t] EXCEPT !.maxSize = @ \div 2]]
         ELSE UNCHANGED <<targetFPS, particlePools>>
    /\ UNCHANGED activeParticles
    /\ PoolFrame

InitPool == InitTelegraph

NextPool ==
    \/ SpawnDangerParticles
    \/ OnSuccessfulHit
    \/ UpdateParticleFrame
    \/ SetPerformanceLevel

SpecPool == InitPool /\ [][NextPool]_vars

\* The list entries that refer to particle slot i of the pool of type t
ListedAs(t, i) ==
    {<<k, n>> \in ListKeys \X (1..5) :
        n <= Len(activeParticles[k]) /\ activeParticles[k][n] = [type |-> t, slot |-> i]}

\* C36: in every reachable state, each pool has 0 <= activeCount <= maxSize and
\* activeCount is the number of its active particles; acquire returns null exactly
\* when the pool is full or has no inactive particle; releasing a particle a second
\* time changes nothing; every listed particle is active and listed exactly once.
C36_PoolAccounting ==
    /\ \A t \in PoolTypes :
         LET p == particlePools[t]
             actives == {i \in 1..Len(p.pool) : p.pool[i].active}
         IN /\ 0 <= p.activeCount
            /\ p.activeCount <= p.maxSize
            /\ p.activeCount = Cardinality(actives)
            /\ (Acquire(p).slot = 0) <=>
                   (p.activeCount >= p.maxSize \/ actives = 1..Len(p.pool))
            /\ \A i \in 1..Len(p.pool) :
                 /\ Release(Release(p, i), i) = Release(p, i)
                 /\ Release(p, i).activeCount
                        = Cardinality({j \in actives : j # i})
    /\ \A k \in ListKeys : \A n \in 1..Len(activeParticles[k]) :
         LET ref == activeParticles[k][n]
         IN /\ particlePools[ref.type].pool[ref.slot].active
            /\ Cardinality(ListedAs(ref.type, ref.slot)) = 1

(***************************************************************************)
(* Specification of the scheduled feedback: the warnings that schedule an  *)
(* entry and the feedback loop that executes the entries                   *)
(***************************************************************************)
\* Milliseconds between two frames of the feedback loop.
FeedbackPeriods == {60, 1500}

\* VisualTelegraphSystem.telegraphInteractionGuide: the list with the new telegraph
TelegraphInteractionGuide(telegraphs, id, interactionType, t) ==
    Append(telegraphs,
           [id |-> id, type |-> interactionType, visualType |-> "icon",
            quadrant |-> -1, duration |-> 2000, endTime |-> t + 2000])

\* executeScheduledEvent at time t: a haptic entry vibrates with its pattern, a
\* visual entry shows the interaction guide.
ExecuteScheduledEvent(st, event, t) ==
    LET done == [st EXCEPT !.executed = Append(@, [event |-> event, at |-> t])]
    IN IF event.type = "haptic"
       THEN [done EXCEPT !.haptics = Append(@, [kind |-> event.pattern, at |-> t])]
       ELSE [done EXCEPT
                !.telegraphs = TelegraphInteractionGuide(@, st.count + 1, event.pattern, t),
                !.count = @ + 1]

\* processScheduledFeedback that executes a due entry and leaves it in the buffer
RECURSIVE ProcessScheduledFeedbackKeep(_, _, _)
ProcessScheduledFeedbackKeep(st, i, t) ==
    IF i = 0 THEN st
    ELSE LET event == st.buffer[i]
         IN IF t >= event.triggerTime
            THEN ProcessScheduledFeedbackKeep(ExecuteScheduledEvent(st, event, t), i - 1, t)
            ELSE ProcessScheduledFeedbackKeep(st, i - 1, t)

\* processScheduledFeedback from entry i down to the first: an entry with
\* now >= triggerTime is executed and spliced out.
RECURSIVE ProcessScheduledFeedback(_, _, _)
ProcessScheduledFeedback(st, i, t) ==
    IF i = 0 THEN st
    ELSE LET event == st.buffer[i]
         IN IF t >= event.triggerTime
            THEN LET ran == ExecuteScheduledEvent(st, event, t)
                 IN ProcessScheduledFeedback(
                        [ran EXCEPT !.buffer = SubSeq(@, 1, i - 1) \o SubSeq(@, i + 1, Len(@))],
                        i - 1, t)
            ELSE ProcessScheduledFeedback(st, i - 1, t)

\* The feedback loop in the next animation frame: processScheduledFeedback, then
\* updateContinuousFeedback, which writes to the visualizer engine only.
FeedbackFrame ==
    /\ frames < MaxTelegraphFrames
    /\ LET t == now + framePeriod
           st == ProcessScheduledFeedback(
                     [buffer |-> syncBuffer, executed |-> executedFeedback,
                      haptics |-> hapticLog, telegraphs |-> activeTelegraphs,
                      count |-> telegraphCount],
                     Len(syncBuffer), t)
       IN /\ now' = t
          /\ syncBuffer' = st.buffer
          /\ executedFeedback' = st.executed
          /\ hapticLog' = st.haptics
          /\ activeTelegraphs' = st.telegraphs
          /\ telegraphCount' = st.count
    /\ frames' = frames + 1
    /\ UNCHANGED <<framePeriod, script, beatInterval, loops, pc>>
    /\ UNCHANGED <<telegraphState, dangerSpawned, lastHapticTime>>
    /\ UNCHANGED <<trackerVars, generatorVars, latencyVars>>
    /\ UNCHANGED <<setupVars, integrationVars>>
    /\ UNCHANGED <<replayVars, analyzerVars, generators, scoreVars, sinkVars, renderVars>>

InitFeedback ==
    /\ InitClock
    /\ InitTracker
    /\ InitGeneratorState
    /\ InitTelegraphState
    /\ InitSetupState
    /\ InitIntegrationState
    /\ InitAuxState
    /\ InitLatencyState
    /\ script = "free"
    /\ beatInterval = 0
    /\ framePeriod \in FeedbackPeriods
    /\ loops = {}

NextFeedback ==
    \/ TriggerDangerWarning
    \/ TriggerGeometrySpawnWarning
    \/ FeedbackFrame

SpecFeedback == InitFeedback /\ [][NextFeedback]_vars

\* How often entry e occurs in the list s
Occurrences(s, e) == Cardinality({i \in 1..Len(s) : s[i] = e})

\* The entries ever scheduled or executed in the two states of a step
KnownEntries ==
    {syncBuffer[i] : i \in 1..Len(syncBuffer)}
        \cup {syncBuffer'[i] : i \in 1..Len(syncBuffer')}
        \cup {executedFeedback'[i].event : i \in 1..Len(executedFeedback')}

\* C37: a pass of processScheduledFeedback at time t executes each entry of the
\* buffer with t >= triggerTime once, at t, and removes it; the entries not yet due
\* stay in the buffer as they were.  No other step executes or removes an entry.
C37_ScheduledFiresOnceWhenDue ==
    [][LET ran == SubSeq(executedFeedback', Len(executedFeedback) + 1,
                         Len(executedFeedback'))
           due(e) == now' >= e.triggerTime
       IN /\ SubSeq(executedFeedback', 1, Len(executedFeedback)) = executedFeedback
          /\ IF frames' = frames + 1
             THEN /\ syncBuffer' = SelectSeq(syncBuffer, LAMBDA e : ~due(e))
                  /\ \A i \in 1..Len(ran) : ran[i].at = now' /\ due(ran[i].event)
                  /\ \A e \in KnownEntries :
                       Occurrences([i \in 1..Len(ran) |-> ran[i].event], e)
                           = IF due(e) THEN Occurrences(syncBuffer, e) ELSE 0
             ELSE /\ ran = <<>>
                  /\ SubSeq(syncBuffer', 1, Len(syncBuffer)) = syncBuffer
      ]_vars

\* An entry was executed in a pass that left an entry not yet due in the buffer.
C37_Witness ==
    /\ executedFeedback # <<>>
    /\ syncBuffer # <<>>
    /\ \E i \in 1..Len(syncBuffer) : syncBuffer[i].triggerTime > now
    /\ \E i \in 1..Len(executedFeedback) :
         /\ executedFeedback[i].event.type = "visual"
         /\ executedFeedback[i].at > executedFeedback[i].event.triggerTime

(***************************************************************************)
(* Specification of the haptic rate limits: the beat and frequency         *)
(* callbacks of the audio director, and the feedback loop as the clock     *)
(***************************************************************************)
MaxHaptics == 3

\* The keys of this.frequencyMappings, one of which getDominantFrequencyBand returns.
MappedBands == {"bass", "lowMid", "mid", "highMid", "high"}

HapticFrame ==
    /\ UNCHANGED <<executedFeedback>>
    /\ UNCHANGED <<directorVars, generatorVars, telegraphVars, latencyVars>>
    /\ UNCHANGED <<setupVars, integrationVars>>
    /\ UNCHANGED <<replayVars, analyzerVars, generators, scoreVars, sinkVars, renderVars>>

\* HapticAudioVisualIntegration.onBeatDetected: more than 100 ms after
\* lastHapticTime, triggerBeatFeedback vibrates and lastHapticTime becomes now.
OnBeatDetected ==
    /\ Len(hapticLog) < MaxHaptics
    /\ IF now - lastHapticTime > 100
       THEN /\ hapticLog' = Append(hapticLog, [kind |-> "beat", at |-> now])
            /\ lastHapticTime' = now
       ELSE UNCHANGED <<hapticLog, lastHapticTime>>
    /\ HapticFrame

\* HapticAudioVisualIntegration.onFrequencyAnalysis -> updateFrequencyBasedFeedback:
\* the dominant band always has a mapping; more than 500 ms after lastHapticTime
\* triggerCustomHaptic vibrates.  lastHapticTime is not written.
OnFrequencyAnalysis ==
    /\ Len(hapticLog) < MaxHaptics
    /\ \E dominantBand \in MappedBands :
         IF now - lastHapticTime > 500
         THEN hapticLog' = Append(hapticLog, [kind |-> "frequency", at |-> now])
         ELSE UNCHANGED hapticLog
    /\ UNCHANGED lastHapticTime
    /\ HapticFrame

InitHaptic == InitFeedback

NextHaptic ==
    \/ OnBeatDetected
    \/ OnFrequencyAnalysis
    \/ FeedbackFrame

SpecHaptic == InitHaptic /\ [][NextHaptic]_vars

\* C38: two beat vibrations are at least 100 ms apart and two frequency-change
\* vibrations are at least 500 ms apart.
C38_HapticRateLimited ==
    \A i, j \in 1..Len(hapticLog) :
        (i < j /\ hapticLog[i].kind = hapticLog[j].kind) =>
            /\ hapticLog[i].kind = "beat" => hapticLog[j].at - hapticLog[i].at >= 100
            /\ hapticLog[i].kind = "frequency" => hapticLog[j].at - hapticLog[i].at >= 500

(***************************************************************************)
(* Specification of the score: updateScore and startNewRun                 *)
(***************************************************************************)
MaxScoreCalls == 52
MaxRuns == 1

\* this.gameState.recentPerformance.length > 50
PerformanceCap == 50

\* The players: every hit perfect, every event missed, or perfect, good and
\* miss in turn.
ScoreScripts == {"perfect", "miss", "mixed"}

\* The hitType of the call after n completed events of the run
HitOf(player, n) ==
    IF player = "mixed" THEN <<"perfect", "good", "miss">>[(n % 3) + 1] ELSE player

\* The points the game gives for a hit
PointsOf(hitType) ==
    IF hitType = "perfect" THEN 100 ELSE IF hitType = "good" THEN 50 ELSE 0

\* updateScore that keeps the combo on a miss
UpdateScoreKeepCombo(gs, points, hitType, t) ==
    LET combo == IF hitType \in {"perfect", "good"} THEN gs.combo + 1 ELSE gs.combo
        pushed == Append(gs.recentPerformance,
                         [time |-> t, hitType |-> hitType, combo |-> combo])
    IN [gs EXCEPT !.score = @ + points,
                  !.perfectHits = IF hitType = "perfect" THEN @ + 1 ELSE @,
                  !.goodHits = IF hitType = "good" THEN @ + 1 ELSE @,
                  !.misses = IF hitType \notin {"perfect", "good"} THEN @ + 1 ELSE @,
                  !.combo = combo,
                  !.maxCombo = Max(@, combo),
                  !.eventsCompleted = @ + 1,
                  !.recentPerformance = IF Len(pushed) > PerformanceCap
                                        THEN Tail(pushed) ELSE pushed]

\* UnifiedAudioGameDirector.updateScore at time t
UpdateScore(gs, points, hitType, t) ==
    LET combo == IF hitType \in {"perfect", "good"} THEN gs.combo + 1 ELSE 0
        pushed == Append(gs.recentPerformance,
                         [time |-> t, hitType |-> hitType, combo |-> combo])
    IN [gs EXCEPT !.score = @ + points,
                  !.perfectHits = IF hitType = "perfect" THEN @ + 1 ELSE @,
                  !.goodHits = IF hitType = "good" THEN @ + 1 ELSE @,
                  !.misses = IF hitType \notin {"perfect", "good"} THEN @ + 1 ELSE @,
                  !.combo = combo,
                  !.maxCombo = Max(@, combo),
                  !.eventsCompleted = @ + 1,
                  !.recentPerformance = IF Len(pushed) > PerformanceCap
                                        THEN Tail(pushed) ELSE pushed]

ScoreFrame ==
    /\ UNCHANGED hitScript
    /\ UNCHANGED <<directorVars, telegraphVars, latencyVars>>
    /\ UNCHANGED <<setupVars, integrationVars>>
    /\ UNCHANGED <<replayVars, analyzerVars, generators, sinkVars, renderVars, feedbackVars>>

\* The game reports the outcome of an event: updateScore(points, hitType)
CallUpdateScore ==
    /\ scoreCalls < MaxScoreCalls
    /\ LET hitType == HitOf(hitScript, gameState.eventsCompleted)
       IN gameState' = UpdateScore(gameState, PointsOf(hitType), hitType, now)
    /\ scoreCalls' = scoreCalls + 1
    /\ UNCHANGED <<runState, generatorVars>>
    /\ ScoreFrame

\* UnifiedAudioGameDirector.startNewRun
StartNewRun ==
    /\ runState.currentRun < MaxRuns
    /\ runState' = [runState EXCEPT !.currentRun = @ + 1]
    /\ gameState' = [gameState EXCEPT !.currentRun = runState.currentRun + 1,
                                      !.runStartTime = now,
                                      !.score = 0, !.combo = 0, !.health = 100,
                                      !.eventsCompleted = 0, !.perfectHits = 0,
                                      !.goodHits = 0, !.misses = 0,
                                      !.recentPerformance = <<>>]
    /\ eventsSpawned' = 0
    /\ UNCHANGED <<segmentQueue, analysisHistory, adaptivesDifficulty, recentHits,
                   nextId, spawnedLog, analysisLog>>
    /\ UNCHANGED scoreCalls
    /\ ScoreFrame

InitScore ==
    /\ InitClock
    /\ InitTracker
    /\ InitGeneratorState
    /\ InitTelegraphState
    /\ InitSetupState
    /\ InitIntegrationState
    /\ InitLatencyState
    /\ InitReplayState
    /\ InitAnalyzerState
    /\ generators = <<>>
    /\ InitSinkState
    /\ InitRenderState
    /\ InitFeedbackState
    /\ InitGameState
    /\ hitScript \in ScoreScripts
    /\ script = "free"
    /\ beatInterval = 0
    /\ framePeriod \in TelegraphPeriods
    /\ loops = {}

NextScore ==
    \/ CallUpdateScore
    \/ StartNewRun

SpecScore == InitScore /\ [][NextScore]_vars

\* C39: in every state eventsCompleted = perfectHits + goodHits + misses,
\* combo <= maxCombo and recentPerformance has at most 50 entries; a miss leaves
\* combo at 0; startNewRun leaves score, combo and the hit counters at 0; maxCombo
\* and unlockLevel never decrease.
C39_CountersConsistent ==
    /\ [](/\ gameState.eventsCompleted
               = gameState.perfectHits + gameState.goodHits + gameState.misses
          /\ gameState.combo <= gameState.maxCombo
          /\ Len(gameState.recentPerformance) <= 50)
    /\ [][/\ gameState'.misses = gameState.misses + 1 => gameState'.combo = 0
          /\ runState'.currentRun = runState.currentRun + 1 =>
                 /\ gameState'.score = 0
                 /\ gameState'.combo = 0
                 /\ gameState'.eventsCompleted = 0
                 /\ gameState'.perfectHits = 0
                 /\ gameState'.goodHits = 0
                 /\ gameState'.misses = 0
          /\ gameState'.maxCombo >= gameState.maxCombo
          /\ runState'.unlockLevel >= runState.unlockLevel]_vars

\* A second run in which more than 50 events were completed, some of them missed.
C39_Witness ==
    /\ runState.currentRun = 1
    /\ gameState.eventsCompleted > 50
    /\ Len(gameState.recentPerformance) = 50
    /\ gameState.misses > 0
    /\ gameState.combo = 0
    /\ gameState.maxCombo > 0

============================================================================
